---------------------------- MODULE Spec2Model ----------------------------
(***************************************************************************)
(* A model of the analysis package bilana.analysis:                        *)
(*   leaflets.py   molecule_leaflet_orientation, get_flipflop_events,      *)
(*                 create_leaflet_assignment_file, calc_density            *)
(*   neighbors.py  Neighbors.determine_neighbors, get_neighbor_dict,       *)
(*                 Neighbors.create_selectionfile_indexcreation            *)
(*   energy.py     Energy.__init__, Energy.run_calculation,                *)
(*                 Energy.selfinteractions_edr_to_xvg,                     *)
(*                 Energy.write_energyfile, Energy.check_exist_xvgs and    *)
(*                 their helpers                                           *)
(* Each part of the package has its own specification over its own group   *)
(* of variables; the variables of the other parts stay at their idle       *)
(* values.  Python strings are sequences of one-character strings, so that *)
(* formatting and parsing are modelled by what they do.                    *)
(***************************************************************************)
EXTENDS Integers, Sequences, FiniteSets, TLC

VARIABLES
    \* ---- leaflets.molecule_leaflet_orientation
    o_pc,               \* "ready" before the call, "done" after it
    atompos1,           \* the head position <<x, y, z>>
    atompos2,           \* the tail position <<x, y, z>>
    o_leaflet,          \* the value returned
    \* ---- leaflets.get_flipflop_events
    f_pc,               \* "loop" | "concat" | "done" | "raised"
    f_dat,              \* the table read from inpfilename: resid -> rows
    f_res,              \* index of the next group of the groupby
    f_segments,         \* every `dat` the inner loop looked at
    frames1,            \* one entry per residue with events
    frames2,            \* the [start, end] pairs kept
    final1,             \* rows written to flipflop_events.csv
    final2,             \* rows written to flipflop_complete.csv
    \* ---- neighbors.determine_neighbors, neighbors.get_neighbor_dict
    nb_pc,              \* "loop" | "written" | "parsed" | "raised"
    nb_refatoms,        \* the argument refatoms
    nb_overwrite,       \* the argument overwrite
    nb_registry_molecules,  \* self.molecules, the configured species
    nb_residue,         \* index into MOLRANGE of the next residue
    nb_datafiles,       \* neighbors_of_residue<r>.dat: [exists, lines]
    nb_outfile,         \* the lines of neighbor_info
    nb_written,         \* per row printed: the residue, time and ids formatted
    nb_invoked,         \* the residues the engine was invoked for, in order
    neibdict,           \* what get_neighbor_dict returned
    \* ---- energy: the fragment count of one residue in the three functions
    fg_pc,              \* "run" | "fragments" | "write" | "check" | "done"
    fg_part,            \* the part mode the Energy instance was built with
    fg_neiblist,        \* self.neiblist[res]: time -> list of neighbor ids
    fg_all,             \* all_neibs_of_res in run_calculation
    fg_frag,            \* groupfragment, the loop variable of line 95
    fg_blocks,          \* per fragment, the slice gather_energygroups took
    fg_species,         \* self.resid_to_lipid
    fg_energygroups,    \* the energygroups string of the last fragment
    fg_nrun,            \* number_of_groupfragments in run_calculation
    fg_nwrite,          \* number_of_groupfragments in write_energyfile
    fg_ncheck,          \* number_of_groupfragments in check_exist_xvgs
    \* ---- energy.Energy.run_calculation
    r_pc,               \* "loop" | "returned"
    r_part,             \* the part mode
    r_overwrite,        \* self.overwrite
    r_pass,             \* which call of run_calculation(resids) this is
    r_res,              \* index into resids of the residue being worked on
    r_frag,             \* the next groupfragment of that residue
    r_files,            \* the files below energypath: path -> content
    r_first,            \* r_files as it was when the current call began
    r_calls,            \* the calls of exec_gromacs, in order
    r_steps,            \* the steps taken (create_MDP and the calls), in order
    r_energygroups,     \* the energygroups string of the last fragment
    r_relev,            \* the relev_energies string of the last fragment
    r_logs,             \* gmx_grompp.log, gmx_mdrun.log, gmx_energy.log
    r_check,            \* what check_exist_xvgs returned and reported
    \* ---- energy.Energy.write_energyfile
    ag_pc,              \* "idle" | "loop" | "done" | "raised"
    ag_part,            \* the part mode
    ag_system,          \* self.system
    ag_species,         \* self.resid_to_lipid
    ag_omit,            \* the (host, neighbor) the tables have no entry for
    ag_idx,             \* index into MOLRANGE of the next residue
    ag_host,            \* the local variable host, unbound at first
    ag_rows,            \* the rows printed to the all_energies file
    ag_error,           \* the exception that ended the function
    \* ---- leaflets.calc_density
    d_ncall,            \* how many calls of calc_density have returned
    d_args,             \* the arguments of the last call
    d_files,            \* the files on disk: path -> content
    d_before,           \* d_files as it was when the last call began
    d_calls,            \* the calls of exec_gromacs the last call made
    d_ret,              \* the value the last call returned
    \* ---- energy.Energy.__init__
    e_pc,               \* "new" | "built" | "raised"
    e_args,             \* the arguments of the constructor
    e_tables,           \* the neighbor tables on disk: file name -> lines
    e_opened,           \* the files opened for reading, in order
    e_self,             \* the attributes of the instance
    e_error,            \* the exception that ended the constructor
    \* ---- selfVars
    si_pc,              \* "idle" | "loop" | "done"
    si_part,            \* the part mode
    si_species,         \* self.resid_to_lipid
    si_idx,             \* index into MOLRANGE of the next residue
    si_relev,           \* the relev_energies string of the last residue
    si_calls,           \* the calls of gmx energy, in order
    \* ---- indexVars
    ix_pc,              \* "idle" | "start" | "atoms" | "select" | "returned" | "raised"
    ix_mol,             \* the residue the selection file is written for
    ix_type,            \* self.resid_to_lipid[mol]
    ix_chains,          \* the numbers of tail carbons of the two chains
    ix_strings,         \* methylatomstrings
    ix_file,            \* the text of the selection file
    ix_error,           \* the exception that ended the call
    \* ---- assignVars
    la_pc,              \* "idle" | "loop" | "done" | "raised"
    la_lines,           \* the matching lines of the coordinate file, as their fields
    la_i,               \* index of the next line
    la_old_resid,       \* old_resid
    la_head,            \* coord_head
    la_base,            \* coord_base
    la_rows,            \* the rows printed after the header
    la_error            \* the exception that ended the call

orientVars == <<o_pc, atompos1, atompos2, o_leaflet>>
flipVars   == <<f_pc, f_dat, f_res, f_segments, frames1, frames2, final1, final2>>
neibVars   == <<nb_pc, nb_refatoms, nb_overwrite, nb_registry_molecules, nb_residue, nb_datafiles,
                nb_outfile, nb_written, nb_invoked, neibdict>>
fragVars   == <<fg_pc, fg_part, fg_neiblist, fg_all, fg_frag, fg_blocks, fg_species,
                fg_energygroups, fg_nrun,
                fg_nwrite, fg_ncheck>>
runVars    == <<r_pc, r_part, r_overwrite, r_pass, r_res, r_frag, r_files, r_first,
                r_calls, r_steps, r_energygroups, r_relev, r_logs, r_check>>
aggVars    == <<ag_pc, ag_part, ag_system, ag_species, ag_omit, ag_idx, ag_host,
                ag_rows, ag_error>>
densVars   == <<d_ncall, d_args, d_files, d_before, d_calls, d_ret>>
ctorVars   == <<e_pc, e_args, e_tables, e_opened, e_self, e_error>>
selfVars == <<si_pc, si_part, si_species, si_idx, si_relev, si_calls>>
indexVars == <<ix_pc, ix_mol, ix_type, ix_chains, ix_strings, ix_file, ix_error>>
assignVars == <<la_pc, la_lines, la_i, la_old_resid, la_head, la_base, la_rows, la_error>>
vars       == <<orientVars, flipVars, neibVars, fragVars, runVars, aggVars,
                densVars, ctorVars,
                selfVars,
                indexVars,
                assignVars>>

---------------------------------------------------------------------------
(* Generic helpers on sequences.                                           *)

Last(s) == s[Len(s)]

Min2(a, b) == IF a <= b THEN a ELSE b

Max2(a, b) == IF a >= b THEN a ELSE b

RangeOf(s) == { s[i] : i \in 1..Len(s) }

\* The subsequence of s at the positions (1-based) where Keep(i) holds.
RECURSIVE SelectIdx(_, _, _)
SelectIdx(s, Keep(_), i) ==
    IF i > Len(s) THEN << >>
    ELSE (IF Keep(i) THEN << s[i] >> ELSE << >>) \o SelectIdx(s, Keep, i + 1)

---------------------------------------------------------------------------
(* Python strings, as sequences of one-character strings.                  *)

Digits == <<"0", "1", "2", "3", "4", "5", "6", "7", "8", "9">>

IsDigit(c) == \E d \in 1..10 : Digits[d] = c

DigitVal(c) == (CHOOSE d \in 1..10 : Digits[d] = c) - 1

\* str(n) for an int n >= 0.
RECURSIVE IntToStr(_)
IntToStr(n) ==
    IF n < 10 THEN << Digits[n + 1] >>
    ELSE IntToStr(n \div 10) \o << Digits[(n % 10) + 1] >>

\* int(s) accepts s when it is a non-empty run of digits (signs, blanks and
\* underscores do not occur in the strings of this model); otherwise it
\* raises ValueError.
IsIntLiteral(s) == s # << >> /\ \A i \in 1..Len(s) : IsDigit(s[i])

RECURSIVE StrToInt(_)
StrToInt(s) ==
    IF Len(s) = 1 THEN DigitVal(s[1])
    ELSE 10 * StrToInt(SubSeq(s, 1, Len(s) - 1)) + DigitVal(s[Len(s)])

RECURSIVE Repeat(_, _)
Repeat(c, n) == IF n <= 0 THEN << >> ELSE << c >> \o Repeat(c, n - 1)

\* '{: <w}'.format(s) and '{: >w}'.format(s): pad with blanks to width w,
\* never cut.
LJust(s, w) == s \o Repeat(" ", w - Len(s))

RJust(s, w) == Repeat(" ", w - Len(s)) \o s

\* sep.join(list), halving the list.
RECURSIVE JoinRange(_, _, _, _)
JoinRange(list, sep, lo, hi) ==
    IF lo > hi THEN << >>
    ELSE IF lo = hi THEN list[lo]
    ELSE LET mid == (lo + hi) \div 2
         IN  JoinRange(list, sep, lo, mid) \o sep \o JoinRange(list, sep, mid + 1, hi)

Join(list, sep) == JoinRange(list, sep, 1, Len(list))

StartsWith(s, pre) == Len(s) >= Len(pre) /\ SubSeq(s, 1, Len(pre)) = pre

\* sub in s
Contains(s, sub) ==
    \E i \in 1..(Len(s) - Len(sub) + 1) : SubSeq(s, i, i + Len(sub) - 1) = sub

\* The positions in lo..hi where sep occurs in s, ascending.
RECURSIVE MatchesIn(_, _, _, _)
MatchesIn(s, sep, lo, hi) ==
    IF lo > hi THEN << >>
    ELSE IF lo = hi
         THEN (IF SubSeq(s, lo, lo + Len(sep) - 1) = sep THEN << lo >> ELSE << >>)
    ELSE LET mid == (lo + hi) \div 2
         IN  MatchesIn(s, sep, lo, mid) \o MatchesIn(s, sep, mid + 1, hi)

\* s.split(sep): the pieces between the occurrences of sep, empty pieces
\* kept.  The separators of this model cannot overlap themselves, so every
\* occurrence separates.
SplitOn(s, sep) ==
    LET m == MatchesIn(s, sep, 1, Len(s) - Len(sep) + 1)
        start(k) == IF k = 1 THEN 1 ELSE m[k - 1] + Len(sep)
        stop(k)  == IF k > Len(m) THEN Len(s) ELSE m[k] - 1
    IN  [ k \in 1..(Len(m) + 1) |-> SubSeq(s, start(k), stop(k)) ]

\* The maximal runs of non-blank characters of s in lo..hi, each as
\* <<first, last>>.
RECURSIVE WSTokens(_, _, _)
WSTokens(s, lo, hi) ==
    IF lo > hi THEN << >>
    ELSE IF lo = hi THEN (IF s[lo] = " " THEN << >> ELSE << << lo, lo >> >>)
    ELSE LET mid == (lo + hi) \div 2
             l   == WSTokens(s, lo, mid)
             r   == WSTokens(s, mid + 1, hi)
         IN  IF l # << >> /\ r # << >> /\ l[Len(l)][2] = mid /\ r[1][1] = mid + 1
             THEN SubSeq(l, 1, Len(l) - 1) \o << << l[Len(l)][1], r[1][2] >> >> \o Tail(r)
             ELSE l \o r

\* s.split(): the maximal runs of non-blank characters.
SplitWS(s) ==
    LET t == WSTokens(s, 1, Len(s))
    IN  [ k \in 1..Len(t) |-> SubSeq(s, t[k][1], t[k][2]) ]

\* s[k:] and s[:-1]
DropFirst(s, k) == SubSeq(s, k + 1, Len(s))

DropLast(s) == SubSeq(s, 1, Len(s) - 1)

\* float(s) for a literal "<digits>.<three digits>", as a count of
\* thousandths.
ParseFloat(s) ==
    LET p == SplitOn(s, <<".">>)
    IN  1000 * StrToInt(p[1]) + StrToInt(p[2])

\* list(set(l)) for a list of ints: the distinct elements, in ascending
\* order (the order in which CPython walks a set of small ints).
RECURSIVE SortedRange(_, _, _)
SortedRange(S, lo, hi) ==
    IF lo > hi THEN << >>
    ELSE IF lo = hi THEN (IF lo \in S THEN << lo >> ELSE << >>)
    ELSE LET mid == (lo + hi) \div 2
         IN  SortedRange(S, lo, mid) \o SortedRange(S, mid + 1, hi)

SortedSeq(S) ==
    IF S = {} THEN << >>
    ELSE SortedRange(S, CHOOSE x \in S : \A y \in S : x <= y,
                        CHOOSE x \in S : \A y \in S : y <= x)

ListOfSet(l) == SortedSeq(RangeOf(l))

---------------------------------------------------------------------------
(* leaflets.py: the orientation rule.                                      *)

\* Coordinates are drawn from -MaxCoord..MaxCoord on every axis.
MaxCoord == 1

Coords == (0 - MaxCoord)..MaxCoord

Positions == { <<x, y, z>> : x \in Coords, y \in Coords, z \in Coords }

\* The default argument axis=np.array([0.0, 0.0, 1.0]).
DefaultAxis == <<0, 0, 1>>

VecSub(a, b) == << a[1] - b[1], a[2] - b[2], a[3] - b[3] >>

Dot(a, b) == a[1] * b[1] + a[2] * b[2] + a[3] * b[3]

\* np.dot(new_coords, axis) / np.linalg.norm(new_coords), kept as the
\* numerator and the square of the denominator: the quotient is nan when the
\* norm is 0 (numpy divides 0.0 by 0.0 with a warning, not an exception).
Cosine(new_coords, axis) ==
    [ num |-> Dot(new_coords, axis), norm2 |-> Dot(new_coords, new_coords) ]

\* cos <= 0 on floats: false for nan.
CosLeqZero(cos) == cos.norm2 # 0 /\ cos.num <= 0

molecule_leaflet_orientation_strict(pos1, pos2) ==
    LET new_coords == VecSub(pos1, pos2)
        cos        == Cosine(new_coords, DefaultAxis)
    IN  IF cos.norm2 # 0 /\ cos.num < 0 THEN 0 ELSE 1

molecule_leaflet_orientation(pos1, pos2) ==
    LET new_coords == VecSub(pos1, pos2)
        cos        == Cosine(new_coords, DefaultAxis)
    IN  IF CosLeqZero(cos) THEN 0 ELSE 1

OrientIdle ==
    /\ o_pc = "idle"
    /\ atompos1 = <<0, 0, 0>>
    /\ atompos2 = <<0, 0, 0>>
    /\ o_leaflet = -1

OrientInit ==
    /\ o_pc = "ready"
    /\ atompos1 \in Positions
    /\ atompos2 \in Positions
    /\ o_leaflet = -1

OrientCall ==
    /\ o_pc = "ready"
    /\ o_leaflet' = molecule_leaflet_orientation(atompos1, atompos2)
    /\ o_pc' = "done"
    /\ UNCHANGED <<atompos1, atompos2>>

---------------------------------------------------------------------------
(* leaflets.py: get_flipflop_events.                                       *)

\* Samples per residue in the input table, and residues in it.
NSamples == 6

NFlipRes == 1

\* The gap of 10000.0 that splits segments (line 172) and the gap of 1000.0
\* that filters the first table (line 187).
SplitGap == 10000

EventGap == 1000

\* Sample times: 0, 100, 200, 15000, 15100, 25100, 35101, 35201, ...: gaps of
\* 100, 100, 14800, 100, 10000, 10001 in turn, so that gaps between change
\* points fall below, on and above the two thresholds.
GapCycle == <<100, 100, 14800, 100, 10000, 10001>>

RECURSIVE TimeAt(_)
TimeAt(i) == IF i <= 1 THEN 0 ELSE TimeAt(i - 1) + GapCycle[((i - 2) % Len(GapCycle)) + 1]

FlipResids == 1..NFlipRes

\* The rows of one residue, in file order: [resid, time, leaflet].
RowsOf(res, leaflets) ==
    [ i \in 1..NSamples |-> [resid |-> res, time |-> TimeAt(i), leaflet |-> leaflets[i]] ]

\* fr[fr.leaflet.diff().fillna(0) != 0]: the first row's diff is NaN and is
\* filled with 0, so the first row is never an event.
FlipEvents(fr) ==
    LET Keep(i) == i > 1 /\ fr[i].leaflet - fr[i - 1].leaflet # 0
    IN  SelectIdx(fr, Keep, 1)

\* [0] + [t for t in events[events.time.diff().fillna(0) > 10000.0].time]
SplitTimes_geq(events) ==
    LET Keep(i) == i > 1 /\ events[i].time - events[i - 1].time >= SplitGap
        rows    == SelectIdx(events, Keep, 1)
    IN  <<0>> \o [ i \in 1..Len(rows) |-> rows[i].time ]

SplitTimes(events) ==
    LET Keep(i) == i > 1 /\ events[i].time - events[i - 1].time > SplitGap
        rows    == SelectIdx(events, Keep, 1)
    IN  <<0>> \o [ i \in 1..Len(rows) |-> rows[i].time ]

\* The `dat` of iteration i of the loop over split_times.
SegmentDat(events, split_times, i) ==
    LET left_val == split_times[i]
        Keep(k) ==
            IF i = Len(split_times)
            THEN events[k].time >= left_val
            ELSE events[k].time >= left_val /\ events[k].time < split_times[i + 1]
    IN  SelectIdx(events, Keep, 1)

Segments(events) ==
    LET split_times == SplitTimes(events)
    IN  [ i \in 1..Len(split_times) |-> SegmentDat(events, split_times, i) ]

\* if start.leaflet == end.leaflet: frames2.append([start, end])
SegmentKept_differ(dat) == dat[1].leaflet # Last(dat).leaflet

SegmentKept(dat) == dat[1].leaflet = Last(dat).leaflet

\* events[ events.time.diff().fillna(1001.0) > 1000.0 ]
FilteredEvents(events) ==
    LET Keep(i) == i = 1 \/ events[i].time - events[i - 1].time > EventGap
    IN  SelectIdx(events, Keep, 1)

\* final2.loc[i] = [l[0].resid, l[0].resname, l[0].time, l[1].time, l[1].leaflet]
CompleteRow(l) ==
    [resid |-> l[1].resid, t_start |-> l[1].time, t_end |-> l[2].time,
     leaflet |-> l[2].leaflet]

FlipIdle ==
    /\ f_pc = "idle"
    /\ f_dat = << >>
    /\ f_res = 0
    /\ f_segments = << >>
    /\ frames1 = << >>
    /\ frames2 = << >>
    /\ final1 = << >>
    /\ final2 = << >>

FlipInit ==
    /\ f_pc = "loop"
    /\ \E leaflets \in [FlipResids -> [1..NSamples -> {0, 1}]] :
           f_dat = [ r \in FlipResids |-> RowsOf(r, leaflets[r]) ]
    /\ f_res = 1
    /\ f_segments = << >>
    /\ frames1 = << >>
    /\ frames2 = << >>
    /\ final1 = << >>
    /\ final2 = << >>

\* One iteration of `for res, fr in grpd` (lines 168-191).  A `dat` without
\* rows makes dat.iloc[0] raise IndexError.
FlipResidue ==
    /\ f_pc = "loop"
    /\ f_res <= NFlipRes
    /\ LET fr     == f_dat[f_res]
           events == FlipEvents(fr)
           segs   == Segments(events)
           kept   == SelectIdx(segs, LAMBDA i : SegmentKept(segs[i]), 1)
       IN  IF events = << >>
           THEN /\ f_res' = f_res + 1
                /\ UNCHANGED <<f_pc, f_segments, frames1, frames2>>
           ELSE IF \E i \in 1..Len(segs) : segs[i] = << >>
           THEN /\ f_pc' = "raised"
                /\ UNCHANGED <<f_res, f_segments, frames1, frames2>>
           ELSE /\ f_segments' = f_segments \o segs
                /\ frames2' = frames2 \o
                       [ i \in 1..Len(kept) |-> << kept[i][1], Last(kept[i]) >> ]
                /\ frames1' = Append(frames1, FilteredEvents(events))
                /\ f_res' = f_res + 1
                /\ UNCHANGED f_pc
    /\ UNCHANGED <<f_dat, final1, final2>>

\* Lines 192-201: pd.concat raises ValueError on an empty list of frames.
FlipWrite ==
    /\ f_pc = "loop"
    /\ f_res > NFlipRes
    /\ IF frames1 = << >>
       THEN /\ f_pc' = "raised"
            /\ UNCHANGED <<final1, final2>>
       ELSE /\ f_pc' = "done"
            /\ final1' = frames1
            /\ final2' = [ i \in 1..Len(frames2) |-> CompleteRow(frames2[i]) ]
    /\ UNCHANGED <<f_dat, f_res, f_segments, frames1, frames2>>

---------------------------------------------------------------------------
(* neighbors.py: determine_neighbors and get_neighbor_dict.                *)

\* Sampled times per residue in an engine data file.
NNbTimes == 2

\* The registry (SysInfo) the Neighbors instance is built on: the residue
\* list, the species of each residue, the configured species, and the map
\* from atom index to residue id.  Atoms 2 and 3 both belong to residue 2.
NbMolrange == <<1, 2, 3>>

nb_resid_to_lipid == [ r \in {1, 2, 3} |-> <<"DPPC", "CHL1", "TIP3">>[r] ]

nb_molecules == {"DPPC", "CHL1"}

index_to_resid == <<1, 2, 2, 3>>

ValidRefatoms == {"P", "bothtails", "glycerol", "tails_com"}

\* The time column of the engine's data file: "0.000", "10.000", ...
NbTimeToken(i) == IntToStr(10 * (i - 1)) \o <<".", "0", "0", "0">>

\* One line of the data file gmx select writes with -oi: the time, the
\* number of atoms selected, and their indices.
DataLine(time, atoms) ==
    Join(<< time, IntToStr(Len(atoms)) >> \o [ i \in 1..Len(atoms) |-> IntToStr(atoms[i]) ],
         << " " >>)

\* What the engine may select for host residue r at one time: any set of
\* atoms of the other residues, in ascending index order.
AtomsAround(r) ==
    { SortedSeq(S) : S \in SUBSET { a \in 1..Len(index_to_resid) : index_to_resid[a] # r } }

EngineDataFiles(r) ==
    { [ i \in 1..NNbTimes |-> DataLine(NbTimeToken(i), sel[i]) ] :
          sel \in [1..NNbTimes -> AtomsAround(r)] }

\* A file of lines: missing, or present with its lines.
AbsentFile == [exists |-> FALSE, lines |-> << >>]

\* A data file left by an earlier run for residue 1.
PreDataFile ==
    [ i \in 1..NNbTimes |->
        DataLine(NbTimeToken(i), IF i = 1 THEN <<2, 3>> ELSE << >>) ]

\* Line 38: the header of neighbor_info.
NbHeader ==
    LJust(<<"R", "e", "s", "i", "d">>, 10) \o LJust(<<"T", "i", "m", "e">>, 20)
        \o LJust(<<"N", "u", "m", "b", "e", "r", "_", "o", "f", "_", "n", "e", "i", "g", "h", "b", "o", "r", "s">>, 10) \o RJust(<<"L", "i", "s", "t", "_", "o", "f", "_", "N", "e", "i", "g", "h", "b", "o", "r", "s">>, 25)

\* Lines 63-68: the columns of one data-file line.
NbLineCols(line) ==
    LET cols == SplitWS(line)
        neibindeces == [ i \in 1..(Len(cols) - 2) |-> StrToInt(cols[i + 2]) ]
    IN  [ time |-> cols[1], nneibs |-> cols[2],
          neibresid |-> [ i \in 1..Len(neibindeces) |-> index_to_resid[neibindeces[i]] ] ]

\* Lines 68-69: the row printed for one data-file line.
NbRow_blanksep(residue, c) ==
    LET residlist == Join([ i \in 1..Len(c.neibresid) |-> IntToStr(c.neibresid[i]) ], << " " >>)
    IN  LJust(IntToStr(residue), 10) \o LJust(c.time, 20) \o LJust(c.nneibs, 10)
            \o RJust(residlist, 25)

NbRow(residue, c) ==
    LET residlist == Join([ i \in 1..Len(c.neibresid) |-> IntToStr(c.neibresid[i]) ], << "," >>)
    IN  LJust(IntToStr(residue), 10) \o LJust(c.time, 20) \o LJust(c.nneibs, 10)
            \o RJust(residlist, 25)

\* Lines 71-148, create_selectionfile_neighborsearch: None for a species that
\* is not configured, ValueError for an unknown refatoms, else the file name.
SelectionFileResult(resid, refatoms) ==
    IF nb_resid_to_lipid[resid] \notin nb_registry_molecules THEN "None"
    ELSE IF refatoms \notin ValidRefatoms THEN "ValueError"
    ELSE "sf"

\* d.update({k: v}) on a dict kept as a function.
DictPut(d, k, v) == [ x \in (DOMAIN d) \cup {k} |-> IF x = k THEN v ELSE d[x] ]

EmptyDict == [ x \in {} |-> 0 ]

\* Lines 300-313: one line of the table read by get_neighbor_dict.
\* cols[3] is missing (IndexError) when the row has no list of neighbors.
NeibDictLine(nd, line) ==
    LET cols  == SplitWS(line)
        resid == StrToInt(cols[1])
        time  == ParseFloat(cols[2])
        d0    == IF resid \in DOMAIN nd THEN nd ELSE DictPut(nd, resid, EmptyDict)
        items == SplitOn(cols[4], << "," >>)
        neiblist == IF Len(cols) >= 4
                    THEN ListOfSet([ i \in 1..Len(items) |-> StrToInt(items[i]) ])
                    ELSE << >>
    IN  DictPut(d0, resid, DictPut(d0[resid], time, neiblist))

\* get_neighbor_dict: the header line is read and dropped, then every line
\* updates the dict.
RECURSIVE NeibDictFrom(_, _, _)
NeibDictFrom(lines, i, nd) ==
    IF i > Len(lines) THEN nd
    ELSE NeibDictFrom(lines, i + 1, NeibDictLine(nd, lines[i]))

get_neighbor_dict(lines) == NeibDictFrom(lines, 2, EmptyDict)

NeibIdle ==
    /\ nb_pc = "idle"
    /\ nb_refatoms = "P"
    /\ nb_overwrite = TRUE
    /\ nb_registry_molecules = nb_molecules
    /\ nb_residue = 0
    /\ nb_datafiles = << >>
    /\ nb_outfile = << >>
    /\ nb_written = << >>
    /\ nb_invoked = << >>
    /\ neibdict = EmptyDict

\* determine_neighbors(refatoms, overwrite) is entered: neighbor_info holds
\* its header; a data file of residue 1 may be left from an earlier run.
\* The registry is configured for the species of the system, or for a
\* species that no residue of the system has.
NeibInit ==
    /\ nb_pc = "loop"
    /\ nb_refatoms \in {"P", "xyz"}
    /\ nb_overwrite \in BOOLEAN
    /\ nb_registry_molecules \in { nb_molecules, {"DUPC"} }
    /\ nb_residue = 1
    /\ nb_datafiles \in
          { [ r \in RangeOf(NbMolrange) |-> IF r = 1 THEN f ELSE AbsentFile ] :
                f \in {AbsentFile, [exists |-> TRUE, lines |-> PreDataFile]} }
    /\ nb_outfile = << NbHeader >>
    /\ nb_written = << >>
    /\ nb_invoked = << >>
    /\ neibdict = EmptyDict

\* The rows printed for the lines of one data file (lines 61-69).
NbRowsOf(residue, datfile) ==
    [ i \in 1..Len(datfile) |-> NbRow(residue, NbLineCols(datfile[i])) ]

NbWrittenOf(residue, datfile) ==
    [ i \in 1..Len(datfile) |->
        [ resid |-> residue, time |-> NbLineCols(datfile[i]).time,
          neibresid |-> NbLineCols(datfile[i]).neibresid ] ]

\* Line 48 without the test: the engine is invoked for every residue.
NbSkip_never(datafiles, residue, overwrite) == FALSE

\* Line 48.
NbSkip(datafiles, residue, overwrite) == datafiles[residue].exists /\ ~overwrite

\* One iteration of the loop over MOLRANGE (lines 39-69).  The engine, when
\* invoked, writes the data file or fails to; open() of a missing data file
\* raises.
NbResidue ==
    /\ nb_pc = "loop"
    /\ nb_residue <= Len(NbMolrange)
    /\ LET residue == NbMolrange[nb_residue]
           sel     == SelectionFileResult(residue, nb_refatoms)
       IN  IF residue \notin DOMAIN nb_resid_to_lipid \/ sel = "None"
           THEN /\ nb_residue' = nb_residue + 1
                /\ UNCHANGED <<nb_pc, nb_datafiles, nb_outfile, nb_written, nb_invoked>>
           ELSE IF sel = "ValueError"
           THEN /\ nb_pc' = "raised"
                /\ UNCHANGED <<nb_residue, nb_datafiles, nb_outfile, nb_written, nb_invoked>>
           ELSE \E out \in (IF NbSkip(nb_datafiles, residue, nb_overwrite)
                            THEN { [kind |-> "skip", lines |-> << >>] }
                            ELSE { [kind |-> "ok", lines |-> f] : f \in EngineDataFiles(residue) }
                                     \cup { [kind |-> "failed", lines |-> << >>] }) :
                   LET datfile == IF out.kind = "ok"
                                  THEN [exists |-> TRUE, lines |-> out.lines]
                                  ELSE nb_datafiles[residue]
                   IN  /\ nb_invoked' = IF out.kind = "skip" THEN nb_invoked
                                        ELSE Append(nb_invoked, residue)
                       /\ nb_datafiles' = [nb_datafiles EXCEPT ![residue] = datfile]
                       /\ IF ~datfile.exists
                          THEN /\ nb_pc' = "raised"
                               /\ UNCHANGED <<nb_residue, nb_outfile, nb_written>>
                          ELSE /\ nb_outfile' = nb_outfile \o NbRowsOf(residue, datfile.lines)
                               /\ nb_written' = nb_written \o NbWrittenOf(residue, datfile.lines)
                               /\ nb_residue' = nb_residue + 1
                               /\ UNCHANGED nb_pc
    /\ UNCHANGED <<nb_refatoms, nb_overwrite, nb_registry_molecules, neibdict>>

\* The loop is over and neighbor_info is closed.
NbClose ==
    /\ nb_pc = "loop"
    /\ nb_residue > Len(NbMolrange)
    /\ nb_pc' = "written"
    /\ UNCHANGED <<nb_refatoms, nb_overwrite, nb_registry_molecules, nb_residue,
                   nb_datafiles, nb_outfile,
                   nb_written, nb_invoked, neibdict>>

\* get_neighbor_dict() on the table just written.
NbParse ==
    /\ nb_pc = "written"
    /\ neibdict' = get_neighbor_dict(nb_outfile)
    /\ nb_pc' = "parsed"
    /\ UNCHANGED <<nb_refatoms, nb_overwrite, nb_registry_molecules, nb_residue,
                   nb_datafiles, nb_outfile,
                   nb_written, nb_invoked>>

---------------------------------------------------------------------------
(* energy.py: the Energy instance and the helpers of run_calculation.      *)

\* Line 24.
DENOMINATOR == 40

\* Line 36.
knownparts == {"complete", "head-tail", "head-tailhalfs", "carbons"}

\* Lines 44-67: self.molparts for each part mode.
molparts(part) ==
    CASE part = "complete"       -> << <<"r", "e", "s", "i", "d", "_">> >>
      [] part = "head-tail"      -> << <<"r", "e", "s", "i", "d", "_", "h", "_">>, <<"r", "e", "s", "i", "d", "_", "t", "_">> >>
      [] part = "head-tailhalfs" -> << <<"r", "e", "s", "i", "d", "_", "h", "_">>, <<"r", "e", "s", "i", "d", "_", "t", "1", "2", "_">>, <<"r", "e", "s", "i", "d", "_", "t", "2", "2", "_">> >>
      [] part = "carbons"        ->
            [ i \in 1..7 |-> <<"r", "e", "s", "i", "d", "_", "C">> \o IntToStr(i - 1) \o << "_" >> ]

\* Lines 47, 55, 60, 65 with the carbons mode dividing by eight.
denominator_eighth(part) ==
    CASE part = "complete"       -> DENOMINATOR
      [] part = "head-tail"      -> DENOMINATOR \div 2
      [] part = "head-tailhalfs" -> DENOMINATOR \div 4
      [] part = "carbons"        -> DENOMINATOR \div 8

\* Lines 47, 55, 60, 65: self.denominator; int(x / k) of a positive x.
denominator(part) ==
    CASE part = "complete"       -> DENOMINATOR
      [] part = "head-tail"      -> DENOMINATOR \div 2
      [] part = "head-tailhalfs" -> DENOMINATOR \div 4
      [] part = "carbons"        -> DENOMINATOR \div 10

\* Lines 43, 46: self.part as it is put into file names, '' for complete.
self_part(part) ==
    CASE part = "complete"       -> << >>
      [] part = "head-tail"      -> <<"h", "e", "a", "d", "-", "t", "a", "i", "l">>
      [] part = "head-tailhalfs" -> <<"h", "e", "a", "d", "-", "t", "a", "i", "l", "h", "a", "l", "f", "s">>
      [] part = "carbons"        -> <<"c", "a", "r", "b", "o", "n", "s">>

\* lipidmolecules.STEROLS and lipidmolecules.PROTEINS: the species that are
\* never split into parts.
STEROLS == {"CHL1", "ERG"}

PROTEINS == {"GLY"}

\* l[a:b] for 0 <= a <= b: the end is clamped to the length of the list.
PySlice(l, a, b) == SubSeq(l, Min2(a, Len(l)) + 1, Min2(b, Len(l)))

\* The concatenation of a list of lists.
ConcatAll(ll) == Join(ll, << >>)

\* Lines 88, 337, 439: list(set([neibs for t in neiblist[res].keys()
\* for neibs in neiblist[res][t]])).
all_neibs_of(nl) == SortedSeq(UNION { RangeOf(nl[t]) : t \in DOMAIN nl })

\* Lines 90-93, run_calculation.
run_number_of_groupfragments_plus1(nneibs, d) == (nneibs \div d) + 1

run_number_of_groupfragments(nneibs, d) ==
    IF nneibs % d = 0 THEN nneibs \div d ELSE (nneibs \div d) + 1

\* Lines 340-343, write_energyfile.
write_number_of_groupfragments(n_neibs, d) ==
    IF n_neibs % d = 0 THEN n_neibs \div d ELSE (n_neibs \div d) + 1

\* Lines 441-444 without the fragment of the remainder.
check_number_of_groupfragments_floor(n_neibs, d) == n_neibs \div d

\* Lines 441-444, check_exist_xvgs.
check_number_of_groupfragments(n_neibs, d) ==
    IF n_neibs % d = 0 THEN n_neibs \div d ELSE (n_neibs \div d) + 1

\* Lines 102-104: self.groupblocks of a fragment.
groupblocks(groupfragment, d) == << groupfragment * d, (groupfragment + 1) * d >>

\* Lines 182-193, with every residue given all the parts of the mode.
gather_energygroups_allparts(res, all_neibs_of_res, gb, part, r2l) ==
    LET energygroup_indeces == << res >> \o PySlice(all_neibs_of_res, gb[1], gb[2])
        mp == molparts(part)
        groupsOf(index) == [ p \in 1..Len(mp) |-> mp[p] \o IntToStr(index) ]
        energygroup_list ==
            ConcatAll([ i \in 1..Len(energygroup_indeces) |-> groupsOf(energygroup_indeces[i]) ])
    IN  Join(energygroup_list, << " " >>)

\* Lines 182-193.
gather_energygroups(res, all_neibs_of_res, gb, part, r2l) ==
    LET energygroup_indeces == << res >> \o PySlice(all_neibs_of_res, gb[1], gb[2])
        mp == molparts(part)
        groupsOf(index) ==
            IF r2l[index] \in STEROLS \cup PROTEINS
            THEN << <<"r", "e", "s", "i", "d", "_">> \o IntToStr(index) >>
            ELSE [ p \in 1..Len(mp) |-> mp[p] \o IntToStr(index) ]
        energygroup_list ==
            ConcatAll([ i \in 1..Len(energygroup_indeces) |-> groupsOf(energygroup_indeces[i]) ])
    IN  Join(energygroup_list, << " " >>)

\* Lines 206-211 and 214-219: the part labels the loops use for a residue,
\* one 'resid_' for a sterol or protein.
PartsFor(index, part, r2l) ==
    IF r2l[index] \in STEROLS \cup PROTEINS THEN << <<"r", "e", "s", "i", "d", "_">> >> ELSE molparts(part)

Etypes == << <<"C", "o", "u", "l", "-", "S", "R", ":">>, <<"L", "J", "-", "S", "R", ":">> >>

\* Lines 195-222: the entries are built in the order of the four loops
\* (interaction, host part, neighbor, neighbor part) and joined by newlines.
get_relev_energies_list(res, all_neibs_of_res, gb, part, r2l) ==
    LET neibs == PySlice(all_neibs_of_res, gb[1], gb[2])
        hp    == PartsFor(res, part, r2l)
        forNeib(interaction, parthost, neib) ==
            LET np == PartsFor(neib, part, r2l)
            IN  [ q \in 1..Len(np) |->
                    interaction \o parthost \o IntToStr(res) \o << "-" >> \o np[q] \o IntToStr(neib) ]
        forHost(interaction, parthost) ==
            ConcatAll([ n \in 1..Len(neibs) |-> forNeib(interaction, parthost, neibs[n]) ])
        forType(interaction) ==
            ConcatAll([ h \in 1..Len(hp) |-> forHost(interaction, hp[h]) ])
    IN  ConcatAll([ e \in 1..Len(Etypes) |-> forType(Etypes[e]) ])

get_relev_energies(res, all_neibs_of_res, gb, part, r2l) ==
    Join(get_relev_energies_list(res, all_neibs_of_res, gb, part, r2l) \o << << "\n" >> >>,
         << "\n" >>)

---------------------------------------------------------------------------
(* energy.py: the fragments of one residue, as run_calculation,            *)
(* write_energyfile and check_exist_xvgs count them.                       *)

\* The residue has up to MaxNeibs distinct neighbors over all times.
MaxNeibs == 85

\* self.neiblist[res] of a residue with n distinct neighbors 1..n, seen at
\* two times; the neighbor in the middle is seen at both.
FragNeiblist(n) ==
    LET h == (n + 1) \div 2
    IN  [ t \in {0, 10000} |->
            IF t = 0 THEN [ i \in 1..h |-> i ]
            ELSE [ i \in 1..(n - Max2(h, 1) + 1) |-> Max2(h, 1) + i - 1 ] ]

\* The residue run_calculation works on, and the species of it and of its
\* neighbors: a pure lipid bilayer, or one where every fifth residue is a
\* sterol.
FragHost == 0

FragSpecies ==
    { [ r \in 0..(MaxNeibs + 1) |-> "DPPC" ],
      [ r \in 0..(MaxNeibs + 1) |-> IF r % 5 = 4 THEN "CHL1" ELSE "DPPC" ] }

FragIdle ==
    /\ fg_pc = "idle"
    /\ fg_part = "complete"
    /\ fg_neiblist = FragNeiblist(0)
    /\ fg_all = << >>
    /\ fg_frag = 0
    /\ fg_blocks = << >>
    /\ fg_species = [ r \in 0..(MaxNeibs + 1) |-> "DPPC" ]
    /\ fg_energygroups = << >>
    /\ fg_nrun = 0
    /\ fg_nwrite = 0
    /\ fg_ncheck = 0

FragInit ==
    /\ fg_pc = "run"
    /\ fg_part \in knownparts
    /\ fg_neiblist \in { FragNeiblist(n) : n \in 0..MaxNeibs }
    /\ fg_all = << >>
    /\ fg_frag = 0
    /\ fg_blocks = << >>
    /\ fg_species \in FragSpecies
    /\ fg_energygroups = << >>
    /\ fg_nrun = 0
    /\ fg_nwrite = 0
    /\ fg_ncheck = 0

\* run_calculation, lines 88-94: the neighbor list and the fragment count.
FragRunEntry ==
    /\ fg_pc = "run"
    /\ fg_all' = all_neibs_of(fg_neiblist)
    /\ fg_nrun' = run_number_of_groupfragments(Len(all_neibs_of(fg_neiblist)),
                                               denominator(fg_part))
    /\ fg_frag' = 0
    /\ fg_pc' = "fragments"
    /\ UNCHANGED <<fg_part, fg_neiblist, fg_blocks, fg_species, fg_energygroups,
                   fg_nwrite, fg_ncheck>>

\* One iteration of the loop of line 95: the group block of the fragment
\* (lines 102-104), the slice taken from it (lines 184 and 212) and the
\* energy groups gathered for it (line 112).
FragRunFragment ==
    /\ fg_pc = "fragments"
    /\ fg_frag < fg_nrun
    /\ LET gb == groupblocks(fg_frag, denominator(fg_part))
       IN  /\ fg_blocks' = Append(fg_blocks, PySlice(fg_all, gb[1], gb[2]))
           /\ fg_energygroups' = gather_energygroups(FragHost, fg_all, gb, fg_part, fg_species)
    /\ fg_frag' = fg_frag + 1
    /\ UNCHANGED <<fg_pc, fg_part, fg_neiblist, fg_all, fg_species, fg_nrun, fg_nwrite,
                   fg_ncheck>>

\* range(number_of_groupfragments) is exhausted.
FragRunDone ==
    /\ fg_pc = "fragments"
    /\ fg_frag >= fg_nrun
    /\ fg_pc' = "write"
    /\ UNCHANGED <<fg_part, fg_neiblist, fg_all, fg_frag, fg_blocks, fg_species,
                   fg_energygroups, fg_nrun, fg_nwrite, fg_ncheck>>

\* write_energyfile, lines 337-343.
FragWrite ==
    /\ fg_pc = "write"
    /\ fg_nwrite' = write_number_of_groupfragments(Len(all_neibs_of(fg_neiblist)),
                                                   denominator(fg_part))
    /\ fg_pc' = "check"
    /\ UNCHANGED <<fg_part, fg_neiblist, fg_all, fg_frag, fg_blocks, fg_species,
                   fg_energygroups, fg_nrun, fg_ncheck>>

\* check_exist_xvgs, lines 439-444.
FragCheck ==
    /\ fg_pc = "check"
    /\ fg_ncheck' = check_number_of_groupfragments(Len(all_neibs_of(fg_neiblist)),
                                                   denominator(fg_part))
    /\ fg_pc' = "done"
    /\ UNCHANGED <<fg_part, fg_neiblist, fg_all, fg_frag, fg_blocks, fg_species,
                   fg_energygroups, fg_nrun, fg_nwrite>>

---------------------------------------------------------------------------
(* energy.py: run_calculation.                                             *)

\* The registry and the neighbor relation the instance is built on: the
\* residues given to run_calculation (not in ascending order), the neighbors
\* of each at two times and the species of every residue.  Residue 1 has
\* five neighbors, residue 3 has none.
RunResids == <<2, 1, 3>>

\* Line 86 over sorted(resids).
ResidueAt_sorted(resids, i) == SortedSeq(RangeOf(resids))[i]

\* Line 86, for res in resids: the residue of the i-th iteration.
ResidueAt(resids, i) == resids[i]

run_neiblist ==
    [ res \in {1, 2, 3} |->
        [ t \in {0, 10000} |->
            CASE res = 1 -> IF t = 0 THEN <<2, 3, 4>> ELSE <<4, 5, 6>>
              [] res = 2 -> IF t = 0 THEN <<1>> ELSE <<1, 6>>
              [] res = 3 -> << >> ] ]

run_resid_to_lipid ==
    [ r \in 1..6 |-> <<"DPPC", "CHL1", "ERG", "GLY", "DPPC", "CHL1">>[r] ]

\* self.energypath, a directory name that ends with a slash.
energypath == <<"e", "n", "/">>

\* A path as the file system resolves it: a run of slashes counts as one.
RECURSIVE NormPath(_)
NormPath(p) ==
    IF Len(p) < 2 THEN p
    ELSE IF p[1] = "/" /\ p[2] = "/" THEN NormPath(Tail(p))
    ELSE << p[1] >> \o NormPath(Tail(p))

\* Lines 98-101 and 108-111: the file names of a fragment.
g_energy_output(res, groupfragment, part) ==
    energypath \o <<"/", "x", "v", "g", "t", "a", "b", "l", "e", "s", "/", "e", "n", "e", "r", "g", "i", "e", "s", "_", "r", "e", "s", "i", "d", "u", "e">> \o IntToStr(res) \o << "_" >>
        \o IntToStr(groupfragment) \o self_part(part) \o <<".", "x", "v", "g">>

mdpout(res, groupfragment, part) ==
    energypath \o <<"m", "d", "p", "f", "i", "l", "e", "s", "/", "e", "n", "e", "r", "g", "y", "_", "m", "d", "p", "_", "r", "e", "c", "a", "l", "c", "_", "r", "e", "s", "i", "d">> \o IntToStr(res) \o << "_" >>
        \o IntToStr(groupfragment) \o self_part(part) \o <<".", "m", "d", "p">>

tprout(res, groupfragment, part) ==
    energypath \o <<"t", "p", "r", "f", "i", "l", "e", "s", "/", "m", "d", "r", "e", "r", "u", "n", "_", "r", "e", "s", "i", "d">> \o IntToStr(res) \o << "_" >>
        \o IntToStr(groupfragment) \o self_part(part) \o <<".", "t", "p", "r">>

energyf_output(res, groupfragment, part) ==
    energypath \o <<"e", "d", "r", "f", "i", "l", "e", "s", "/", "e", "n", "e", "r", "g", "y", "f", "i", "l", "e", "_", "r", "e", "s", "i", "d">> \o IntToStr(res) \o << "_" >>
        \o IntToStr(groupfragment) \o self_part(part) \o <<".", "e", "d", "r">>

xvg_out(res, groupfragment, part) ==
    energypath \o <<"x", "v", "g", "t", "a", "b", "l", "e", "s", "/", "e", "n", "e", "r", "g", "i", "e", "s", "_", "r", "e", "s", "i", "d", "u", "e">> \o IntToStr(res) \o << "_" >>
        \o IntToStr(groupfragment) \o self_part(part) \o <<".", "x", "v", "g">>

\* os.path.isfile(p), and writing a file.
IsFile(files, p) == NormPath(p) \in DOMAIN files

WriteFile(files, p, content) == DictPut(files, NormPath(p), content)

\* What a file holds: who wrote it, the text that depends on the arguments,
\* and for the output of a rerun or an extraction the number of the engine
\* call that produced it.
Content(by, text, n) == [ by |-> by, text |-> text, n |-> n ]

Call(prog, res, groupfragment, pass) ==
    [ prog |-> prog, res |-> res, frag |-> groupfragment, pass |-> pass ]

\* Lines 291, 306 and 318: the three logs before the first invocation; an
\* entry of a log is the output of one invocation, named by the number of
\* the call.
NoLogs == [ grompp |-> << >>, mdrun |-> << >>, energy |-> << >> ]

\* open(log, "w") in place of open(log, "a").
LogAppend_truncating(log, n) == << n >>

\* open(log, "a"); logfile.write(err); logfile.write(out).
LogAppend(log, n) == Append(log, n)

\* self.MOLRANGE of the registry.
RunMolrange == <<1, 2, 3>>

\* Line 446.
check_xvgfilename(resid, part_i, part) ==
    energypath \o <<"/", "x", "v", "g", "t", "a", "b", "l", "e", "s", "/", "e", "n", "e", "r", "g", "i", "e", "s", "_", "r", "e", "s", "i", "d", "u", "e">> \o IntToStr(resid) \o << "_" >>
        \o IntToStr(part_i) \o self_part(part) \o <<".", "x", "v", "g">>

\* Lines 445-449 for one residue: the names of the tables that are not
\* there, in the order of the fragments.
check_missing_of(files, resid, part) ==
    LET n == check_number_of_groupfragments(Len(all_neibs_of(run_neiblist[resid])),
                                            denominator(part))
    IN  SelectSeq([ k \in 1..n |-> check_xvgfilename(resid, k - 1, part) ],
                  LAMBDA f : ~IsFile(files, f))

\* Lines 433-452: the return value and the lines of missing_xvgfiles.info.
check_exist_xvgs(files, part) ==
    LET missing == ConcatAll([ i \in 1..Len(RunMolrange) |->
                        check_missing_of(files, RunMolrange[i], part) ])
    IN  [ all_okay |-> missing = << >>,
          report   |-> << <<"#", "F", "i", "l", "e", "s", " ", "m", "i", "s", "s", "i", "n", "g">> >> \o missing ]

\* check_exist_xvgs has not been called.
NotChecked == [ all_okay |-> TRUE, report |-> << >> ]

RunIdle ==
    /\ r_pc = "idle"
    /\ r_part = "complete"
    /\ r_overwrite = TRUE
    /\ r_pass = 0
    /\ r_res = 0
    /\ r_frag = 0
    /\ r_files = EmptyDict
    /\ r_first = EmptyDict
    /\ r_calls = << >>
    /\ r_steps = << >>
    /\ r_energygroups = << >>
    /\ r_relev = << >>
    /\ r_logs = NoLogs
    /\ r_check = NotChecked

\* The first call of run_calculation, on an empty energy directory.
RunInit ==
    /\ r_pc = "loop"
    /\ r_part \in knownparts
    /\ r_overwrite \in BOOLEAN
    /\ r_pass = 1
    /\ r_res = 1
    /\ r_frag = 0
    /\ r_files = EmptyDict
    /\ r_first = EmptyDict
    /\ r_calls = << >>
    /\ r_steps = << >>
    /\ r_energygroups = << >>
    /\ r_relev = << >>
    /\ r_logs = NoLogs
    /\ r_check = NotChecked

\* Lines 118-121 without the test of line 118: the rerun is always made.
SkipEdr_never(files, edr, overwrite) == FALSE

\* Line 118.
SkipEdr(files, edr, overwrite) == IsFile(files, edr) /\ ~overwrite

\* Line 122.
SkipXvg(files, xvg, overwrite) == IsFile(files, xvg) /\ ~overwrite

\* One iteration of the loop of line 95 (lines 96-125).  create_MDP writes
\* the run-control file; grompp writes the run input and (-po) the
\* run-control file again; mdrun needs the run input and gmx energy needs
\* the trace, and either may fail.  Each invocation is followed by the
\* write of its output to the log of its step.
RunFragment ==
    /\ r_pc = "loop"
    /\ r_res <= Len(RunResids)
    /\ LET res  == ResidueAt(RunResids, r_res)
           all  == all_neibs_of(run_neiblist[res])
           d    == denominator(r_part)
           gb   == groupblocks(r_frag, d)
           mdp  == mdpout(res, r_frag, r_part)
           tpr  == tprout(res, r_frag, r_part)
           edr  == energyf_output(res, r_frag, r_part)
           energygroups   == gather_energygroups(res, all, gb, r_part, run_resid_to_lipid)
           relev_energies == get_relev_energies(res, all, gb, r_part, run_resid_to_lipid)
       IN  /\ r_frag < run_number_of_groupfragments(Len(all), d)
           /\ \E mdrun_ok \in BOOLEAN, energy_ok \in BOOLEAN :
                LET f1 == WriteFile(r_files, mdp, Content("create_MDP", energygroups, 0))
                    c1 == Append(r_calls, Call("grompp", res, r_frag, r_pass))
                    f2 == WriteFile(WriteFile(f1, tpr, Content("grompp", energygroups, 0)),
                                    mdp, Content("grompp", energygroups, 0))
                    rerun == ~SkipEdr(f2, edr, r_overwrite)
                    c2 == IF rerun THEN Append(c1, Call("mdrun", res, r_frag, r_pass)) ELSE c1
                    f3 == IF rerun /\ mdrun_ok /\ IsFile(f2, tpr)
                          THEN WriteFile(f2, edr, Content("mdrun", << >>, Len(c2)))
                          ELSE f2
                    extract == ~SkipXvg(f3, g_energy_output(res, r_frag, r_part), r_overwrite)
                    c3 == IF extract THEN Append(c2, Call("energy", res, r_frag, r_pass)) ELSE c2
                    f4 == IF extract /\ energy_ok /\ IsFile(f3, edr)
                          THEN WriteFile(f3, xvg_out(res, r_frag, r_part),
                                         Content("energy", << >>, Len(c3)))
                          ELSE f3
                    step(prog) == Call(prog, res, r_frag, r_pass)
                    l1 == [ r_logs EXCEPT !.grompp = LogAppend(@, Len(c1)) ]
                    l2 == IF rerun THEN [ l1 EXCEPT !.mdrun = LogAppend(@, Len(c2)) ] ELSE l1
                    l3 == IF extract THEN [ l2 EXCEPT !.energy = LogAppend(@, Len(c3)) ] ELSE l2
                IN  /\ r_files' = f4
                    /\ r_logs' = l3
                    /\ r_calls' = c3
                    /\ r_steps' = r_steps \o << step("create_MDP"), step("grompp") >>
                                      \o (IF rerun THEN << step("mdrun") >> ELSE << >>)
                                      \o (IF extract THEN << step("energy") >> ELSE << >>)
           /\ r_energygroups' = energygroups
           /\ r_relev' = relev_energies
    /\ r_frag' = r_frag + 1
    /\ UNCHANGED <<r_pc, r_part, r_overwrite, r_pass, r_res, r_first, r_check>>

\* The fragments of the residue are done: the loop of line 86 goes on.
RunNextResidue ==
    /\ r_pc = "loop"
    /\ r_res <= Len(RunResids)
    /\ LET all == all_neibs_of(run_neiblist[ResidueAt(RunResids, r_res)])
       IN  r_frag >= run_number_of_groupfragments(Len(all), denominator(r_part))
    /\ r_res' = r_res + 1
    /\ r_frag' = 0
    /\ UNCHANGED <<r_pc, r_part, r_overwrite, r_pass, r_files, r_first, r_calls,
                   r_steps, r_energygroups, r_relev, r_logs, r_check>>

\* Line 126: return 1.
RunReturn ==
    /\ r_pc = "loop"
    /\ r_res > Len(RunResids)
    /\ r_pc' = "returned"
    /\ UNCHANGED <<r_part, r_overwrite, r_pass, r_res, r_frag, r_files, r_first,
                   r_calls, r_steps, r_energygroups, r_relev, r_logs, r_check>>

\* run_calculation is called a second time with the same residues.
RunAgain ==
    /\ r_pc = "returned"
    /\ r_pass = 1
    /\ r_pc' = "loop"
    /\ r_pass' = r_pass + 1
    /\ r_res' = 1
    /\ r_frag' = 0
    /\ r_first' = r_files
    /\ UNCHANGED <<r_part, r_overwrite, r_files, r_calls, r_steps, r_energygroups, r_relev,
                   r_logs, r_check>>

\* check_exist_xvgs() is called after run_calculation has returned.
RunCheck ==
    /\ r_pc = "returned"
    /\ r_check' = check_exist_xvgs(r_files, r_part)
    /\ r_pc' = "checked"
    /\ UNCHANGED <<r_part, r_overwrite, r_pass, r_res, r_frag, r_files, r_first,
                   r_calls, r_steps, r_energygroups, r_relev, r_logs>>

---------------------------------------------------------------------------
(* energy.py: write_energyfile.                                            *)

\* The registry the instance is built on: MOLRANGE, the neighbors of each
\* residue at two times, and self.dt in thousandths of a time unit.
AggMolrange == <<242, 372, 500>>

agg_neiblist ==
    [ res \in {242, 372, 500} |->
        [ t \in {0, 10000} |->
            CASE res = 242 -> IF t = 0 THEN <<372, 500>> ELSE <<372>>
              [] res = 372 -> IF t = 0 THEN <<242>> ELSE <<242, 500>>
              [] res = 500 -> <<242>> ] ]

agg_dt == 10000

\* The times of the data lines of an extraction table; 5.000 is not a
\* multiple of dt.
AggTimes == <<0, 5000, 10000>>

NoOmission == [ host |-> 0, neib |-> 0 ]

OmitChoices ==
    { NoOmission } \cup
    { [ host |-> p[1], neib |-> p[2] ] :
        p \in { q \in RangeOf(AggMolrange) \X RangeOf(AggMolrange) :
                    q[2] \in RangeOf(all_neibs_of(agg_neiblist[q[1]])) } }

\* The entries gmx energy is asked for, as it reads them from its input: the
\* non-empty lines.
RequestedTerms(inp) == SelectSeq(SplitOn(inp, << "\n" >>), LAMBDA t : t # << >>)

\* The extraction table of a fragment as gmx energy writes it: two lines of
\* preamble, one legend line per entry it found in the trace, and one data
\* line per time with a value for each legend.  The trace has no entry
\* for the omitted neighbor of the host.
XvgTable(res, groupfragment, part, r2l, omit) ==
    LET all   == all_neibs_of(agg_neiblist[res])
        gb    == groupblocks(groupfragment, denominator(part))
        asked == RequestedTerms(get_relev_energies(res, all, gb, part, r2l))
        found == SelectSeq(asked,
                    LAMBDA t : ~(omit.host = res
                                 /\ Last(SplitOn(t, << "_" >>)) = IntToStr(omit.neib)))
        legend(k) == <<"@", " ", "s">> \o IntToStr(k - 1) \o <<" ", "l", "e", "g", "e", "n", "d", " ", "\"">> \o found[k] \o << "\"" >>
        value(k)  == IntToStr(k) \o <<".", "2", "5", "0">>
        data(t)   == Join(<< IntToStr(t \div 1000) \o <<".", "0", "0", "0">> >> \o [ k \in 1..Len(found) |-> value(k) ],
                          << " " >>)
    IN  << <<"#", " ", "g", "m", "x", " ", "e", "n", "e", "r", "g", "y">>, <<"@", " ", "l", "e", "g", "e", "n", "d", " ", "o", "n">> >>
            \o [ k \in 1..Len(found) |-> legend(k) ]
            \o [ i \in 1..Len(AggTimes) |-> data(AggTimes[i]) ]

\* Python values of two types in one list: an int never equals a str.
PyInt(n) == [ ty |-> "int", s |-> IntToStr(n) ]

PyStr(s) == [ ty |-> "str", s |-> s ]

\* The dict res_to_row as the list of its updates; a later update of a key
\* replaces an earlier one.
HasKey(d, k) == \E i \in 1..Len(d) : d[i].key = k

Lookup(d, k) ==
    LET at == { i \in 1..Len(d) : d[i].key = k }
    IN  d[CHOOSE i \in at : \A j \in at : j <= i].val

Unbound == [ bound |-> FALSE, s |-> << >> ]

\* Lines 353-367: a legend line.
AggHeaderLine(st, cols) ==
    LET row        == StrToInt(DropFirst(cols[2], 1)) + 1
        sp         == SplitOn(cols[4], <<"r", "e", "s", "i", "d", "_">>)
        neib       == DropLast(sp[3])
        host       == DropLast(sp[2])
        energytype == DropFirst(SplitOn(cols[4], << "-" >>)[1], 1)
    IN  [ st EXCEPT !.processed = IF energytype = <<"L", "J">> THEN Append(@, neib) ELSE @,
                    !.res_to_row = Append(@, [ key |-> << energytype, host, neib >>, val |-> row ]),
                    !.host = [ bound |-> TRUE, s |-> host ] ]

\* Lines 377-416: the rows of one neighbor at one data line.
AggRowsFor(st, cols, time, resid, neib, part, r2l) ==
    LET mp        == molparts(part)
        partsOf(t) == IF t = "CHL1" THEN << << >> >>
                      ELSE [ p \in 1..Len(mp) |-> DropFirst(mp[p], 6) ]
        hp        == partsOf(r2l[resid])
        np        == partsOf(r2l[neib])
        label(p)  == IF DropLast(p) = << >> THEN << "w" >> ELSE DropLast(p)
        rowOf(parthost, partneib) ==
            LET kv == << <<"L", "J">>, parthost \o IntToStr(resid), partneib \o IntToStr(neib) >>
                kc == << <<"C", "o", "u", "l">>, parthost \o IntToStr(resid), partneib \o IntToStr(neib) >>
            IN  IF HasKey(st.res_to_row, kv) /\ HasKey(st.res_to_row, kc)
                THEN LET vdw  == cols[Lookup(st.res_to_row, kv) + 1]
                         coul == cols[Lookup(st.res_to_row, kc) + 1]
                     IN  << [ time |-> time, host |-> resid, neib |-> neib,
                              inter |-> label(parthost) \o << "_" >> \o label(partneib),
                              vdw |-> vdw, coul |-> coul,
                              etot |-> ParseFloat(vdw) + ParseFloat(coul) ] >>
                ELSE << >>
    IN  ConcatAll([ h \in 1..Len(hp) |->
            ConcatAll([ n \in 1..Len(np) |-> rowOf(hp[h], np[n]) ]) ])

\* Lines 372-376: the loop over the neighbors at one data line.  int(host)
\* is evaluated first in the test of line 374, for the system it names.
RECURSIVE AggNeibLoop(_, _, _, _, _, _, _, _, _)
AggNeibLoop(st, cols, time, resid, all, i, part, system, r2l) ==
    IF i > Len(all) THEN st
    ELSE LET neib == all[i]
         IN  IF system = "dppc_dupc_chol25" /\ ~st.host.bound
             THEN [ st EXCEPT !.err = "UnboundLocalError: host" ]
             ELSE IF system = "dppc_dupc_chol25" /\ ~IsIntLiteral(st.host.s)
             THEN [ st EXCEPT !.err = "ValueError: invalid literal for int()" ]
             ELSE IF system = "dppc_dupc_chol25"
                     /\ \/ StrToInt(st.host.s) = 372 /\ neib = 242
                        \/ StrToInt(st.host.s) = 242 /\ neib = 372
             THEN AggNeibLoop(st, cols, time, resid, all, i + 1, part, system, r2l)
             ELSE AggNeibLoop(
                    [ st EXCEPT !.rows = @ \o AggRowsFor(st, cols, time, resid, neib, part, r2l) ],
                    cols, time, resid, all, i + 1, part, system, r2l)

\* Lines 352-416: one line of a table.
AggLine(st, energyline, resid, all, part, system, r2l) ==
    LET cols == SplitWS(energyline)
    IN  IF st.err # "none" THEN st
        ELSE IF Contains(energyline, <<"@", " ", "s">>) THEN AggHeaderLine(st, cols)
        ELSE IF ~Contains(energyline, << "@" >>) /\ ~Contains(energyline, << "#" >>)
        THEN LET time == ParseFloat(cols[1])
             IN  IF time % agg_dt # 0 THEN st
                 ELSE AggNeibLoop(st, cols, time, resid, all, 1, part, system, r2l)
        ELSE st

\* Line 351: the lines lo..hi of one table in their order, until one of
\* them raises.
RECURSIVE AggTable(_, _, _, _, _, _, _, _, _)
AggTable(st, lines, lo, hi, resid, all, part, system, r2l) ==
    IF lo > hi THEN st
    ELSE IF lo = hi THEN AggLine(st, lines[lo], resid, all, part, system, r2l)
    ELSE LET mid  == (lo + hi) \div 2
             left == AggTable(st, lines, lo, mid, resid, all, part, system, r2l)
         IN  IF left.err # "none" THEN left
             ELSE AggTable(left, lines, mid + 1, hi, resid, all, part, system, r2l)

\* Lines 346-350: the tables of the fragments of one residue, each with a
\* fresh res_to_row.
RECURSIVE AggFragments(_, _, _, _, _, _, _, _, _)
AggFragments(st, groupfragment, n, resid, all, part, system, r2l, omit) ==
    IF groupfragment >= n \/ st.err # "none" THEN st
    ELSE AggFragments(
            LET xvgfile == XvgTable(resid, groupfragment, part, r2l, omit)
            IN  AggTable([ st EXCEPT !.res_to_row = << >> ], xvgfile, 1, Len(xvgfile),
                         resid, all, part, system, r2l),
            groupfragment + 1, n, resid, all, part, system, r2l, omit)

\* part.replace("resid_", "")
WithoutResid(s) == Join(SplitOn(s, <<"r", "e", "s", "i", "d", "_">>), << >>)

\* Lines 421-423: all_neibs_of_res as the cross-check sees it.
AggExpected(all, part) ==
    LET mp == molparts(part)
    IN  IF Len(mp) > 1
        THEN LET l1 == ConcatAll([ e \in 1..Len(all) |->
                          [ p \in 1..Len(mp) |-> PyStr(WithoutResid(mp[p]) \o IntToStr(all[e])) ] ])
             IN  ConcatAll([ e \in 1..Len(l1) |-> [ k \in 1..Len(mp) |-> l1[e] ] ])
        ELSE [ e \in 1..Len(all) |-> PyInt(all[e]) ]

\* list.remove(x) of an x that is in the list: the first occurrence goes.
ListRemove(l, x) ==
    LET at == { j \in 1..Len(l) : l[j] = x }
        i  == CHOOSE j \in at : \A k \in at : j <= k
    IN  SubSeq(l, 1, i - 1) \o SubSeq(l, i + 1, Len(l))

\* Lines 426-428: the processed ids lo..hi are removed in their order, each
\* once; remove() of a value that is not in the list raises.
RECURSIVE AggRemoveAll(_, _, _, _)
AggRemoveAll(cc, processed, lo, hi) ==
    IF lo > hi THEN cc
    ELSE IF lo = hi
         THEN (IF cc.err # "none" THEN cc
               ELSE IF PyStr(processed[lo]) \notin RangeOf(cc.list)
               THEN [ cc EXCEPT !.err = "ValueError: list.remove(x): x not in list" ]
               ELSE [ cc EXCEPT !.list = ListRemove(@, PyStr(processed[lo])) ])
    ELSE LET mid  == (lo + hi) \div 2
             left == AggRemoveAll(cc, processed, lo, mid)
         IN  IF left.err # "none" THEN left
             ELSE AggRemoveAll(left, processed, mid + 1, hi)

\* Lines 426-431: what stays after the removals is missing.
AggCrossCheck(expected, processed) ==
    LET cc == AggRemoveAll([ list |-> expected, err |-> "none" ], processed, 1, Len(processed))
    IN  IF cc.err # "none" THEN cc.err
        ELSE IF cc.list # << >> THEN "ValueError: Not all neighbours found in xvgfile"
        ELSE "none"

\* Lines 335-431 for one residue: what it printed, the host it left bound
\* and how it ended.
AggResidueResult(resid, host, part, system, r2l, omit) ==
    LET all == all_neibs_of(agg_neiblist[resid])
        n   == write_number_of_groupfragments(Len(all), denominator(part))
        st0 == [ res_to_row |-> << >>, processed |-> << >>, host |-> host,
                 rows |-> << >>, err |-> "none" ]
        st1 == AggFragments(st0, 0, n, resid, all, part, system, r2l, omit)
    IN  IF st1.err # "none" THEN st1
        ELSE [ st1 EXCEPT !.err = AggCrossCheck(AggExpected(all, part), st1.processed) ]

\* self.resid_to_lipid: every assignment of DPPC and CHL1 to the residues,
\* and two with a residue of the sterol ERG.
AggSpecies ==
    [ RangeOf(AggMolrange) -> {"DPPC", "CHL1"} ]
        \cup { [ r \in RangeOf(AggMolrange) |-> IF r = e THEN "ERG" ELSE "DPPC" ] :
                 e \in {242, 372} }

AggIdle ==
    /\ ag_pc = "idle"
    /\ ag_part = "complete"
    /\ ag_system = "none"
    /\ ag_species = [ r \in RangeOf(AggMolrange) |-> "DPPC" ]
    /\ ag_omit = NoOmission
    /\ ag_idx = 0
    /\ ag_host = Unbound
    /\ ag_rows = << >>
    /\ ag_error = "none"

\* write_energyfile is entered; the tables of every fragment exist.
AggInit ==
    /\ ag_pc = "loop"
    /\ ag_part \in knownparts
    /\ ag_system \in {"dppc_dupc_chol25", "dppc_chol_inp"}
    /\ ag_species \in AggSpecies
    /\ ag_omit \in OmitChoices
    /\ ag_idx = 1
    /\ ag_host = Unbound
    /\ ag_rows = << >>
    /\ ag_error = "none"

\* One iteration of the loop of line 334.
AggResidue ==
    /\ ag_pc = "loop"
    /\ ag_idx <= Len(AggMolrange)
    /\ LET st == AggResidueResult(AggMolrange[ag_idx], ag_host, ag_part, ag_system,
                                  ag_species, ag_omit)
       IN  /\ ag_rows' = ag_rows \o st.rows
           /\ ag_host' = st.host
           /\ ag_error' = st.err
           /\ ag_pc' = IF st.err = "none" THEN "loop" ELSE "raised"
           /\ ag_idx' = IF st.err = "none" THEN ag_idx + 1 ELSE ag_idx
    /\ UNCHANGED <<ag_part, ag_system, ag_species, ag_omit>>

\* MOLRANGE is exhausted and the output file is closed.
AggDone ==
    /\ ag_pc = "loop"
    /\ ag_idx > Len(AggMolrange)
    /\ ag_pc' = "done"
    /\ UNCHANGED <<ag_part, ag_system, ag_species, ag_omit, ag_idx, ag_host, ag_rows,
                   ag_error>>

---------------------------------------------------------------------------
(* leaflets.py: calc_density.                                              *)

\* How many times calc_density is called in a row.
MaxDensCalls == 2

\* systeminfo.datapath and systeminfo.temppath, directory names that end
\* with a slash, and the trajectory and run-input paths.
dens_datapath == <<"d", "a", "t", "/">>

dens_temppath == <<"t", "m", "p", "/">>

TRJ == <<"t", "r", "j", "_", "w", "h", "o", "l", "e", ".", "x", "t", "c">>

TPR == <<"t", "o", "p", "o", "l", ".", "t", "p", "r">>

\* Line 215.
NDX == dens_temppath \o <<"t", "e", "m", "p", ".", "n", "d", "x">>

\* Line 216.
OUT(outname) == dens_datapath \o <<"d", "e", "n", "s", "i", "t", "i", "e", "s", "/">> \o outname

\* Line 203: the defaults of outname and overwrite.
DefaultOutname == <<"d", "e", "n", "s", "i", "t", "y", ".", "x", "v", "g">>

DefaultOverwrite == FALSE

\* The value of the parameter overwrite for an argument that is left out
\* ("default") or given ("True", "False").
DensOverwrite(arg) ==
    CASE arg = "default" -> DefaultOverwrite
      [] arg = "True"    -> TRUE
      [] arg = "False"   -> FALSE

\* os.path.exists(p).
PathExists(files, p) == NormPath(p) \in DOMAIN files

\* Line 217, with the flag left out of the test.
DensSkip_exists_only(files, out, overwrite) == PathExists(files, out)

\* Line 217.
DensSkip(files, out, overwrite) == ~overwrite /\ PathExists(files, out)

\* Lines 223-224: the command of gmx select.
DensSelectCmd(selstr) ==
    SplitWS(Join(<< <<"g", "m", "x", " ", "s", "e", "l", "e", "c", "t", " ", "-", "f">>, TRJ, <<"-", "s">>, TPR, <<"-", "o", "n">>, NDX, <<"-", "s", "e", "l", "e", "c", "t">> >>,
                 << " " >>))
        \o << selstr >>

\* Lines 232-238: the keyword arguments as flags.
DensAdditionalInput(kw_den) ==
    ConcatAll([ i \in 1..Len(kw_den) |-> << << "-" >> \o kw_den[i][1], kw_den[i][2] >> ])

\* Lines 239-240: the command of gmx density.
DensDensityCmd(out, kw_den) ==
    SplitWS(Join(<< <<"g", "m", "x", " ", "d", "e", "n", "s", "i", "t", "y", " ", "-", "f">>, TRJ, <<"-", "s">>, TPR, <<"-", "n">>, NDX, <<"-", "o">>, out,
                    <<" ", "-", "d", " ", "Z">> >>,
                 << " " >>))
        \o DensAdditionalInput(kw_den)

\* Lines 203-246.  n numbers the call; the engine writes the index file when
\* the selection succeeds, and the profile when the density run succeeds and
\* finds the index file.  Either log is rewritten whenever its step ran.
calc_density(files, args, n, select_ok, density_ok) ==
    LET out == OUT(args.outname)
    IN  IF DensSkip(files, out, DensOverwrite(args.overwrite))
        THEN [ files |-> files, calls |-> << >>, ret |-> out ]
        ELSE LET f1 == IF select_ok
                       THEN WriteFile(files, NDX, Content("select", args.selstr, n))
                       ELSE files
                 f2 == WriteFile(f1, <<"g", "m", "x", "_", "s", "e", "l", "e", "c", "t", ".", "l", "o", "g">>, Content("log", << >>, n))
                 f3 == IF density_ok /\ PathExists(f2, NDX)
                       THEN WriteFile(f2, out, Content("density", args.selstr, n))
                       ELSE f2
                 f4 == WriteFile(f3, <<"g", "m", "x", "_", "d", "e", "n", "s", "i", "t", "y", ".", "l", "o", "g">>, Content("log", << >>, n))
             IN  [ files |-> f4,
                   calls |-> << DensSelectCmd(args.selstr),
                                DensDensityCmd(out, args.kw_den) >>,
                   ret   |-> out ]

\* The arguments a call is made with.
DensArgs ==
    [ selstr    : { <<"n", "a", "m", "e", " ", "P">>, <<"r", "e", "s", "n", "a", "m", "e", " ", "C", "H", "L", "1">> },
      outname   : { DefaultOutname, <<"c", "h", "o", "l", ".", "x", "v", "g">> },
      overwrite : { "default", "True", "False" },
      kw_den    : { << >>, << << <<"b">>, <<"3">> >> >> } ]

DensIdle ==
    /\ d_ncall = 0
    /\ d_args = [ selstr |-> << >>, outname |-> DefaultOutname, overwrite |-> "default",
                  kw_den |-> << >> ]
    /\ d_files = EmptyDict
    /\ d_before = EmptyDict
    /\ d_calls = << >>
    /\ d_ret = << >>

\* Before the first call: the profile of an earlier session may be there.
DensInit ==
    /\ d_ncall = 0
    /\ d_args = [ selstr |-> << >>, outname |-> DefaultOutname, overwrite |-> "default",
                  kw_den |-> << >> ]
    /\ d_files \in { EmptyDict,
                     WriteFile(EmptyDict, OUT(DefaultOutname), Content("density", << >>, 0)) }
    /\ d_before = EmptyDict
    /\ d_calls = << >>
    /\ d_ret = << >>

\* One call of calc_density(systeminfo, selstr, outname, overwrite, **kw_den).
DensCall ==
    /\ d_ncall < MaxDensCalls
    /\ \E args \in DensArgs, select_ok \in BOOLEAN, density_ok \in BOOLEAN :
          LET r == calc_density(d_files, args, d_ncall + 1, select_ok, density_ok)
          IN  /\ d_args' = args
              /\ d_before' = d_files
              /\ d_files' = r.files
              /\ d_calls' = r.calls
              /\ d_ret' = r.ret
    /\ d_ncall' = d_ncall + 1

---------------------------------------------------------------------------
(* energy.py: Energy.__init__.                                             *)

\* Line 30 of energy.py and line 290 of neighbors.py: the default names of
\* the neighbor table.
DefaultNeighborfilename == <<"n", "e", "i", "g", "h", "b", "o", "r", "_", "i", "n", "f", "o">>

get_neighbor_dict_default == <<"n", "e", "i", "g", "h", "b", "o", "r", "_", "i", "n", "f", "o">>

\* Line 31.
DefaultResindexAll == <<"r", "e", "s", "i", "n", "d", "e", "x", "_", "a", "l", "l">>

\* An argument that may be left out: the value given, or the default.
ArgOr(arg, default) == IF arg.given THEN arg.value ELSE default

\* Lines 48, 56, 61, 66: self.molparts_short.
molparts_short(part) ==
    CASE part = "complete"       -> << << >> >>
      [] part = "head-tail"      -> << <<"h", "_">>, <<"t", "_">> >>
      [] part = "head-tailhalfs" -> << <<"h", "_">>, <<"t", "1", "2", "_">>, <<"t", "2", "2", "_">> >>
      [] part = "carbons"        -> [ i \in 1..7 |-> << "C" >> \o IntToStr(i - 1) \o << "_" >> ]

\* Lines 49-52, 57, 62, 67: self.all_energies.
all_energies(part, neighborfilename) ==
    CASE part = "complete"       ->
            IF neighborfilename # <<"n", "e", "i", "g", "h", "b", "o", "r", "_", "i", "n", "f", "o">>
            THEN <<"a", "l", "l", "_", "e", "n", "e", "r", "g", "i", "e", "s", "_">> \o neighborfilename \o <<".", "d", "a", "t">>
            ELSE <<"a", "l", "l", "_", "e", "n", "e", "r", "g", "i", "e", "s", ".", "d", "a", "t">>
      [] part = "head-tail"      -> <<"a", "l", "l", "_", "e", "n", "e", "r", "g", "i", "e", "s", "_", "h", "e", "a", "d", "t", "a", "i", "l", ".", "d", "a", "t">>
      [] part = "head-tailhalfs" -> <<"a", "l", "l", "_", "e", "n", "e", "r", "g", "i", "e", "s", "_", "h", "e", "a", "d", "t", "a", "i", "l", "h", "a", "l", "f", "s", ".", "d", "a", "t">>
      [] part = "carbons"        -> <<"a", "l", "l", "_", "e", "n", "e", "r", "g", "i", "e", "s", "_", "c", "a", "r", "b", "o", "n", "s", ".", "d", "a", "t">>

\* Two neighbor tables as determine_neighbors writes them: in the first
\* residue 1 has the neighbors 2 and 3, in the second the neighbor 4.
CtorTable(neibresid) ==
    << NbHeader,
       NbRow(1, [ time |-> NbTimeToken(1), nneibs |-> IntToStr(Len(neibresid)),
                  neibresid |-> neibresid ]),
       NbRow(2, [ time |-> NbTimeToken(1), nneibs |-> <<"0">>, neibresid |-> << >> ]) >>

CtorTables == { CtorTable(<<2, 3>>), CtorTable(<<4>>) }

\* Lines 295-297 of neighbors.py: open(neighborfile, "r") and the parse.
open_neighborfile(tables, neighborfile) ==
    IF neighborfile \in DOMAIN tables
    THEN [ error |-> "none", neibdict |-> get_neighbor_dict(tables[neighborfile]) ]
    ELSE [ error |-> "FileNotFoundError", neibdict |-> EmptyDict ]

\* Lines 27-68.  SysInfo.__init__ (line 34) reads the input file and is
\* taken to succeed; line 39 calls get_neighbor_dict() with no argument, so
\* that the default of neighbors.py line 290 names the file.
Energy_init(args, tables) ==
    LET part == args.part
        neighborfilename == ArgOr(args.neighborfilename, DefaultNeighborfilename)
    IN  IF part \notin knownparts
        THEN [ error |-> "ValueError: Part keyword specified is not known.",
               opened |-> << >>, self |-> Unbound ]
        ELSE LET read == open_neighborfile(tables, get_neighbor_dict_default)
             IN  IF read.error # "none"
                 THEN [ error |-> read.error, opened |-> << get_neighbor_dict_default >>,
                        self |-> Unbound ]
                 ELSE [ error |-> "none",
                        opened |-> << get_neighbor_dict_default >>,
                        self |-> [ neiblist       |-> read.neibdict,
                                   resindex_all   |-> ArgOr(args.resindex_all, DefaultResindexAll),
                                   overwrite      |-> ArgOr(args.overwrite, TRUE),
                                   groupblocks    |-> << >>,
                                   part           |-> self_part(part),
                                   molparts       |-> molparts(part),
                                   denominator    |-> denominator(part),
                                   molparts_short |-> molparts_short(part),
                                   all_energies   |-> all_energies(part, neighborfilename) ] ]

\* The arguments the constructor is called with; "tails" is not a part mode.
CtorArgs ==
    [ part             : knownparts \cup {"tails"},
      neighborfilename : { [given |-> FALSE, value |-> << >>],
                           [given |-> TRUE, value |-> <<"n", "e", "i", "g", "h", "b", "o", "r", "_", "i", "n", "f", "o">>],
                           [given |-> TRUE, value |-> <<"n", "e", "i", "g", "h", "b", "o", "r", "_", "a", "l", "t">>] },
      resindex_all     : { [given |-> FALSE, value |-> << >>] },
      overwrite        : { [given |-> FALSE, value |-> TRUE],
                           [given |-> TRUE, value |-> FALSE] } ]

\* The working directory: each of the two table names is absent or holds
\* one of the tables.
CtorDirs ==
    UNION { [ S -> CtorTables ] :
              S \in SUBSET { <<"n", "e", "i", "g", "h", "b", "o", "r", "_", "i", "n", "f", "o">>, <<"n", "e", "i", "g", "h", "b", "o", "r", "_", "a", "l", "t">> } }

CtorIdle ==
    /\ e_pc = "idle"
    /\ e_args = [ part |-> "complete",
                  neighborfilename |-> [given |-> FALSE, value |-> << >>],
                  resindex_all |-> [given |-> FALSE, value |-> << >>],
                  overwrite |-> [given |-> FALSE, value |-> TRUE] ]
    /\ e_tables = EmptyDict
    /\ e_opened = << >>
    /\ e_self = Unbound
    /\ e_error = "none"

CtorInit ==
    /\ e_pc = "new"
    /\ e_args \in CtorArgs
    /\ e_tables \in CtorDirs
    /\ e_opened = << >>
    /\ e_self = Unbound
    /\ e_error = "none"

\* Energy(part, neighborfilename=..., resindex_all=..., overwrite=...).
EnergyInit ==
    /\ e_pc = "new"
    /\ LET r == Energy_init(e_args, e_tables)
       IN  /\ e_pc' = IF r.error = "none" THEN "built" ELSE "raised"
           /\ e_opened' = r.opened
           /\ e_self' = r.self
           /\ e_error' = r.error
    /\ UNCHANGED <<e_args, e_tables>>

---------------------------------------------------------------------------
(* energy.py: selfinteractions_edr_to_xvg.                                 *)

\* The registry: MOLRANGE.
SelfMolrange == <<1, 2, 3>>

\* Line 229.
SelfEtypes == << <<"C", "o", "u", "l", "-", "S", "R", ":">>, <<"L", "J", "-", "S", "R", ":">>, <<"C", "o", "u", "l", "-", "1", "4", ":">>, <<"L", "J", "-", "1", "4", ":">> >>

\* Lines 224-235: one entry per interaction type and part of the mode.
get_relev_self_interaction(res, part, r2l) ==
    LET mp == molparts(part)
        forType(interaction) ==
            [ h \in 1..Len(mp) |->
                interaction \o mp[h] \o IntToStr(res) \o << "-" >> \o mp[h] \o IntToStr(res) ]
    IN  Join(ConcatAll([ e \in 1..Len(SelfEtypes) |-> forType(SelfEtypes[e]) ])
                 \o << << "\n" >> >>,
             << "\n" >>)

\* Line 134.
self_xvg_out(res, part) ==
    energypath \o <<"x", "v", "g", "t", "a", "b", "l", "e", "s", "/", "e", "n", "e", "r", "g", "i", "e", "s", "_", "r", "e", "s", "i", "d", "u", "e">> \o IntToStr(res)
        \o <<"_", "s", "e", "l", "f", "i", "n", "t", "e", "r", "a", "c", "t", "i", "o", "n">> \o self_part(part) \o <<".", "x", "v", "g">>

SelfIdle ==
    /\ si_pc = "idle"
    /\ si_part = "complete"
    /\ si_species = [ r \in RangeOf(SelfMolrange) |-> "DPPC" ]
    /\ si_idx = 0
    /\ si_relev = << >>
    /\ si_calls = << >>

\* selfinteractions_edr_to_xvg() is entered.
SelfInit ==
    /\ si_pc = "loop"
    /\ si_part \in knownparts
    /\ si_species \in [ RangeOf(SelfMolrange) -> {"DPPC", "CHL1", "GLY"} ]
    /\ si_idx = 1
    /\ si_relev = << >>
    /\ si_calls = << >>

\* One iteration of the loop of line 130: the terms of the residue and the
\* extraction from the trace of its fragment 0 (lines 131-135).
SelfResidue ==
    /\ si_pc = "loop"
    /\ si_idx <= Len(SelfMolrange)
    /\ LET res == SelfMolrange[si_idx]
           relev_energies == get_relev_self_interaction(res, si_part, si_species)
       IN  /\ si_relev' = relev_energies
           /\ si_calls' = Append(si_calls,
                                 [ prog |-> "energy",
                                   f |-> energyf_output(res, 0, si_part),
                                   s |-> tprout(res, 0, si_part),
                                   o |-> self_xvg_out(res, si_part),
                                   input |-> relev_energies ])
    /\ si_idx' = si_idx + 1
    /\ UNCHANGED <<si_pc, si_part, si_species>>

\* MOLRANGE is exhausted.
SelfDone ==
    /\ si_pc = "loop"
    /\ si_idx > Len(SelfMolrange)
    /\ si_pc' = "done"
    /\ UNCHANGED <<si_part, si_species, si_idx, si_relev, si_calls>>

---------------------------------------------------------------------------
(* neighbors.py: create_selectionfile_indexcreation.                       *)

\* The longest tail chain, in carbons.
MaxChain == 16

\* The species names as text.
SpeciesText(t) ==
    CASE t = "DPPC" -> <<"D", "P", "P", "C">>
      [] t = "CHL1" -> <<"C", "H", "L", "1">>
      [] t = "ERG"  -> <<"E", "R", "G">>
      [] t = "GLY"  -> <<"G", "L", "Y">>
      [] t = "TIP3" -> <<"T", "I", "P", "3">>

\* lipidmolecules.tailcarbons_of(lipidtype)[tailindex] for a chain of n
\* carbons: C22, C23, ... in the first chain, C32, C33, ... in the second.
tailcarbons_of(tailindex, n) ==
    [ k \in 1..n |-> << "C" >> \o IntToStr(tailindex + 2) \o IntToStr(k + 1) ]

\* lipidmolecules.tailhydr_of(lipidtype)[tailindex]: two hydrogens for each
\* carbon and a third one for the last.
tailhydr_of(tailindex, n) ==
    LET sfx == IF tailindex = 0 THEN <<"R", "S", "T">> ELSE <<"X", "Y", "Z">>
    IN  [ j \in 1..(2 * n + 1) |->
            << "H" >> \o IntToStr(Min2((j + 1) \div 2, n) + 1)
                \o << IF j = 2 * n + 1 THEN sfx[3] ELSE sfx[2 - (j % 2)] >> ]

\* lipidmolecules.tail_atoms_of(lipidtype) and head_atoms_of(lipidtype).
tail_atoms_of(chains) ==
    [ c \in 1..2 |-> tailcarbons_of(c - 1, chains[c]) \o tailhydr_of(c - 1, chains[c]) ]

head_atoms_of == << <<"P">>, <<"N">>, <<"C", "1">>, <<"C", "2">>, <<"C", "3">> >>

\* Lines 251-256.
get_atoms_tail(chains) ==
    [ tailatoms |-> ConcatAll(tail_atoms_of(chains)), headatoms |-> head_atoms_of ]

\* Lines 257-266.
get_atoms_tailhalfs(chains) ==
    LET ta == tail_atoms_of(chains)
    IN  [ tailhalf12 |-> Join(ConcatAll([ c \in 1..2 |-> PySlice(ta[c], 0, Len(ta[c]) \div 2) ]),
                              << " " >>),
          tailhalf22 |-> Join(ConcatAll([ c \in 1..2 |->
                                  PySlice(ta[c], Len(ta[c]) \div 2, Len(ta[c])) ]),
                              << " " >>) ]

\* Lines 271-279: the carbons of a chain zipped with its hydrogens taken in
\* twos, flattened to C, H, H, C, H, H, ...
methylgrouplist_unp(carbons, hydr) ==
    LET n == Min2(Len(carbons), Len(hydr) \div 2)
    IN  ConcatAll([ k \in 1..n |-> << carbons[k], hydr[2 * k - 1], hydr[2 * k] >> ])

\* Lines 267-287.
get_atoms_tailcarbons(chains) ==
    LET methylatomslists ==
            [ c \in 1..2 |-> methylgrouplist_unp(tailcarbons_of(c - 1, chains[c]),
                                                 tailhydr_of(c - 1, chains[c])) ]
        l0 == methylatomslists[1]
        l1 == methylatomslists[2]
        \* range(0, len(l0) - 1, 6)
        nsteps == IF Len(l0) - 1 <= 0 THEN 0 ELSE ((Len(l0) - 2) \div 6) + 1
        methylgroup(i) ==
            PySlice(l0, i, i + 3) \o PySlice(l0, i + 3, i + 6)
                \o PySlice(l1, i, i + 3) \o PySlice(l1, i + 3, i + 6)
    IN  [ b \in 1..nsteps |-> Join(methylgroup(6 * (b - 1)), << " " >>) ]

\* Lines 240-250 with the prefix and the residue id exchanged in the name.
define_selection_for_resids_idfirst(mol, lipidtype, descriptor) ==
    ConcatAll([ d \in 1..Len(descriptor) |->
        <<"r", "e", "s", "i", "d", "_">> \o IntToStr(mol) \o << "_" >> \o descriptor[d].prefname
            \o <<"=", "r", "e", "s", "i", "d", " ">> \o IntToStr(mol)
            \o <<" ", "a", "n", "d", " ", "r", "e", "s", "n", "a", "m", "e", " ">> \o SpeciesText(lipidtype) \o <<" ", "a", "n", "d", " ", "n", "a", "m", "e", " ">>
            \o descriptor[d].atomnames \o << ";", "\n" >> ])

\* Lines 240-250.
define_selection_for_resids(mol, lipidtype, descriptor) ==
    ConcatAll([ d \in 1..Len(descriptor) |->
        IF descriptor[d].prefname = << >>
        THEN <<"r", "e", "s", "i", "d", "_">> \o IntToStr(mol) \o <<"=", "r", "e", "s", "i", "d", " ">> \o IntToStr(mol)
                \o <<" ", "a", "n", "d", " ", "r", "e", "s", "n", "a", "m", "e", " ">> \o SpeciesText(lipidtype) \o <<" ", "a", "n", "d", " ", "n", "a", "m", "e", " ">>
                \o descriptor[d].atomnames \o << ";", "\n" >>
        ELSE <<"r", "e", "s", "i", "d", "_">> \o descriptor[d].prefname \o << "_" >> \o IntToStr(mol)
                \o <<"=", "r", "e", "s", "i", "d", " ">> \o IntToStr(mol)
                \o <<" ", "a", "n", "d", " ", "r", "e", "s", "n", "a", "m", "e", " ">> \o SpeciesText(lipidtype) \o <<" ", "a", "n", "d", " ", "n", "a", "m", "e", " ">>
                \o descriptor[d].atomnames \o << ";", "\n" >> ])

\* Lines 209-221: the prefixes and their atom names.
selprefixes(chains, methylatomstrings) ==
    << [ prefname |-> << >>,     atomnames |-> << "\"", ".", "*", "\"" >> ],
       [ prefname |-> <<"h">>,   atomnames |-> Join(get_atoms_tail(chains).headatoms, << " " >>) ],
       [ prefname |-> <<"t">>,   atomnames |-> Join(get_atoms_tail(chains).tailatoms, << " " >>) ],
       [ prefname |-> <<"t", "1", "2">>, atomnames |-> get_atoms_tailhalfs(chains).tailhalf12 ],
       [ prefname |-> <<"t", "2", "2">>, atomnames |-> get_atoms_tailhalfs(chains).tailhalf22 ] >>
    \o [ k \in 1..7 |-> [ prefname |-> << "C" >> \o IntToStr(k - 1),
                          atomnames |-> methylatomstrings[k] ] ]

\* Lines 224-226.
lastlineitems(mol, descriptor) ==
    <<"r", "e", "s", "i", "d", "_">> \o IntToStr(mol) \o << ";", "\n" >>
    \o ConcatAll([ d \in 1..Len(descriptor) |->
          IF descriptor[d].prefname # << >>
          THEN <<"r", "e", "s", "i", "d", "_">> \o descriptor[d].prefname \o << "_" >> \o IntToStr(mol)
                  \o << ";", "\n" >>
          ELSE << >> ])

\* Lines 231-238.
selectionstring(mol, lipidtype) ==
    <<"r", "e", "s", "i", "d", "_">> \o IntToStr(mol) \o <<"=", "r", "e", "s", "i", "d", " ">> \o IntToStr(mol)
        \o <<" ", "a", "n", "d", " ", "r", "e", "s", "n", "a", "m", "e", " ">> \o SpeciesText(lipidtype) \o << ";", "\n" >>
        \o <<"r", "e", "s", "i", "d", "_">> \o IntToStr(mol) \o << ";" >>

\* Lines 190-238 as a function of the residue: the text written to the
\* selection file, or the exception.
create_selectionfile_indexcreation(mol, lipidtype, molecules, chains) ==
    IF lipidtype \notin molecules
    THEN [ error |-> "none", text |-> << >> ]
    ELSE IF lipidtype \notin STEROLS \cup PROTEINS
    THEN LET methylatomstrings == get_atoms_tailcarbons(chains)
         IN  IF Len(methylatomstrings) < 7
             THEN [ error |-> "IndexError: list index out of range", text |-> << >> ]
             ELSE LET sp == selprefixes(chains, methylatomstrings)
                  IN  [ error |-> "none",
                        text  |-> define_selection_for_resids(mol, lipidtype, sp)
                                     \o lastlineitems(mol, sp) ]
    ELSE [ error |-> "none", text |-> selectionstring(mol, lipidtype) ]

\* The names of the groups a selection file defines: what stands before
\* the '=' of its lines.
DefinedGroups(text) ==
    LET lines == SplitOn(text, << "\n" >>)
    IN  { SplitOn(lines[i], << "=" >>)[1] :
            i \in { j \in 1..Len(lines) : Contains(lines[j], << "=" >>) } }

\* The registry of the energy run: self.molecules, and the numbers of tail
\* carbons of the two chains of its lipid.
run_molecules == {"DPPC", "CHL1", "ERG", "GLY"}

run_chains == <<14, 14>>

\* self.molecules: the configured species.
ix_molecules == {"DPPC", "CHL1", "GLY"}

IndexIdle ==
    /\ ix_pc = "idle"
    /\ ix_mol = 0
    /\ ix_type = "DPPC"
    /\ ix_chains = <<1, 1>>
    /\ ix_strings = << >>
    /\ ix_file = << >>
    /\ ix_error = "none"

\* create_selectionfile_indexcreation(selectionfilename, mol) is entered:
\* the residue, its species and, for a lipid, the lengths of its chains.
IndexInit ==
    /\ ix_pc = "start"
    /\ ix_mol \in 1..2
    /\ ix_type \in {"DPPC", "CHL1", "GLY", "TIP3"}
    /\ ix_chains \in (1..MaxChain) \X (1..MaxChain)
    /\ ix_type # "DPPC" => ix_chains = <<1, 1>>
    /\ ix_strings = << >>
    /\ ix_file = << >>
    /\ ix_error = "none"

\* Lines 201-204 and 231-238: the file is opened for writing; a species
\* that is not configured leaves it empty, a sterol or protein gets its one
\* group.
IndexOpen ==
    /\ ix_pc = "start"
    /\ IF ix_type \notin ix_molecules
       THEN ix_pc' = "returned" /\ ix_file' = << >>
       ELSE IF ix_type \notin STEROLS \cup PROTEINS
       THEN ix_pc' = "atoms" /\ ix_file' = << >>
       ELSE ix_pc' = "returned" /\ ix_file' = selectionstring(ix_mol, ix_type)
    /\ UNCHANGED <<ix_mol, ix_type, ix_chains, ix_strings, ix_error>>

\* Lines 206-208: the atom names of the parts.
IndexAtoms ==
    /\ ix_pc = "atoms"
    /\ ix_strings' = get_atoms_tailcarbons(ix_chains)
    /\ ix_pc' = "select"
    /\ UNCHANGED <<ix_mol, ix_type, ix_chains, ix_file, ix_error>>

\* Lines 209-228: methylatomstrings[0] .. [6] are read, and the groups are
\* written.
IndexWrite ==
    /\ ix_pc = "select"
    /\ IF Len(ix_strings) < 7
       THEN /\ ix_pc' = "raised"
            /\ ix_error' = "IndexError: list index out of range"
            /\ ix_file' = ix_file
       ELSE LET sp == selprefixes(ix_chains, ix_strings)
            IN  /\ ix_pc' = "returned"
                /\ ix_error' = ix_error
                /\ ix_file' = define_selection_for_resids(ix_mol, ix_type, sp)
                                \o lastlineitems(ix_mol, sp)
    /\ UNCHANGED <<ix_mol, ix_type, ix_chains, ix_strings>>

---------------------------------------------------------------------------
(* leaflets.py: create_leaflet_assignment_file.                            *)

\* The number of residues in the coordinate file.
NAssignRes == 3

\* sysinfo_obj.molecules: the configured species.
la_molecules == {"DPPC"}

\* lipidmolecules.central_atom_of(resname) and
\* lipidmolecules.scd_tail_atoms_of(resname)[0][-1].
central_atom_of(resname) == "P"

last_scd_tail_atom_of(resname) == "C216"

\* None, and a position that was assigned.
NoCoord == [ some |-> FALSE, pos |-> <<0, 0, 0>> ]

SomeCoord(pos) == [ some |-> TRUE, pos |-> pos ]

\* The lines of a residue in the file: head atom and last tail atom of a
\* lipid, the atoms of a water molecule.
AssignResidueLines(resid, resname, headz) ==
    IF resname = "DPPC"
    THEN << [ resid |-> resid, resname |-> resname, atomname |-> "P",
              coords |-> <<0, 0, headz>> ],
            [ resid |-> resid, resname |-> resname, atomname |-> "C216",
              coords |-> <<0, 0, 0>> ] >>
    ELSE << [ resid |-> resid, resname |-> resname, atomname |-> "OH2",
              coords |-> <<0, 0, headz>> ],
            [ resid |-> resid, resname |-> resname, atomname |-> "H1",
              coords |-> <<0, 0, 0>> ] >>

\* The coordinate files: the residues 1, 2, ... in their order, each of a
\* configured species or water, each with its head above or below its base.
AssignFiles ==
    { ConcatAll([ r \in 1..NAssignRes |-> AssignResidueLines(r, names[r], headz[r]) ]) :
        names \in [ 1..NAssignRes -> {"DPPC", "TIP3"} ],
        headz \in [ 1..NAssignRes -> {0 - 1, 1} ] }

\* Line 74: np.array - np.array; None - None raises.
leaflet_of(coord_head, coord_base) ==
    IF coord_head.some /\ coord_base.some
    THEN [ error |-> "none",
           leaflet |-> molecule_leaflet_orientation(coord_head.pos, coord_base.pos) ]
    ELSE [ error |-> "TypeError: unsupported operand type(s) for -", leaflet |-> 0 ]

AssignIdle ==
    /\ la_pc = "idle"
    /\ la_lines = << >>
    /\ la_i = 0
    /\ la_old_resid = 0
    /\ la_head = NoCoord
    /\ la_base = NoCoord
    /\ la_rows = << >>
    /\ la_error = "none"

\* Lines 32-52: the files are open and the header is printed.
AssignInit ==
    /\ la_pc = "loop"
    /\ la_lines \in AssignFiles
    /\ la_i = 1
    /\ la_old_resid = 0
    /\ la_head = NoCoord
    /\ la_base = NoCoord
    /\ la_rows = << >>
    /\ la_error = "none"

\* Lines 51-91: one matching line of the file.
AssignLine ==
    /\ la_pc = "loop"
    /\ la_i <= Len(la_lines)
    /\ LET line  == la_lines[la_i]
           old1  == IF la_old_resid = 0 THEN line.resid ELSE la_old_resid
           head1(h) == IF line.atomname = central_atom_of(line.resname)
                       THEN SomeCoord(line.coords) ELSE h
           base1(b) == IF line.atomname = last_scd_tail_atom_of(line.resname)
                       THEN SomeCoord(line.coords) ELSE b
       IN  IF line.resname \notin la_molecules
           THEN /\ la_old_resid' = old1
                /\ la_i' = la_i + 1
                /\ UNCHANGED <<la_pc, la_head, la_base, la_rows, la_error>>
           ELSE IF old1 # line.resid
           THEN LET l == leaflet_of(la_head, la_base)
                IN  IF l.error # "none"
                    THEN /\ la_pc' = "raised"
                         /\ la_error' = l.error
                         /\ la_old_resid' = old1
                         /\ UNCHANGED <<la_i, la_head, la_base, la_rows>>
                    ELSE /\ la_rows' = Append(la_rows, [ resid |-> old1, leaflet |-> l.leaflet ])
                         /\ la_old_resid' = line.resid
                         /\ la_head' = head1(NoCoord)
                         /\ la_base' = base1(NoCoord)
                         /\ la_i' = la_i + 1
                         /\ UNCHANGED <<la_pc, la_error>>
           ELSE /\ la_old_resid' = old1
                /\ la_head' = head1(la_head)
                /\ la_base' = base1(la_base)
                /\ la_i' = la_i + 1
                /\ UNCHANGED <<la_pc, la_rows, la_error>>
    /\ UNCHANGED la_lines

\* Lines 93-102: the file is read; the row of the last residue.
AssignFinish ==
    /\ la_pc = "loop"
    /\ la_i > Len(la_lines)
    /\ la_rows' = IF la_base.some /\ la_head.some
                  THEN Append(la_rows,
                              [ resid |-> la_old_resid,
                                leaflet |-> IF CosLeqZero(Cosine(VecSub(la_head.pos, la_base.pos),
                                                                 DefaultAxis))
                                            THEN 0 ELSE 1 ])
                  ELSE la_rows
    /\ la_pc' = "done"
    /\ UNCHANGED <<la_lines, la_i, la_old_resid, la_head, la_base, la_error>>

---------------------------------------------------------------------------
(* Claims about leaflets.py.                                               *)

OrientZ == atompos1[3] - atompos2[3]

OrientNonZero == atompos1 # atompos2

ChangePoints(r) ==
    SelectIdx(f_dat[r], LAMBDA i : i > 1 /\ f_dat[r][i].leaflet # f_dat[r][i - 1].leaflet, 1)

\* The segments the loop looked at for residue r, in order.
SegsOf(r) == SelectSeq(f_segments, LAMBDA s : s[1].resid = r)

RECURSIVE Flatten(_)
Flatten(ss) == IF ss = << >> THEN << >> ELSE Head(ss) \o Flatten(Tail(ss))

FlipProcessed(r) == r \in FlipResids /\ r < f_res

\* The [start, end] pairs expected of residue r: one per segment whose first
\* and last change point report the same leaflet.
ExpectedPairs(r) ==
    LET segs == SegsOf(r)
        same == SelectSeq(segs, LAMBDA s : s[1].leaflet = s[Len(s)].leaflet)
    IN  [ i \in 1..Len(same) |-> << same[i][1], same[i][Len(same[i])] >> ]

RECURSIVE ExpectedPairsUpTo(_)
ExpectedPairsUpTo(r) ==
    IF r = 0 THEN << >> ELSE ExpectedPairsUpTo(r - 1) \o ExpectedPairs(r)

\* C9: the change points of a residue are split into segments exactly where
\* the gap between consecutive change-point times exceeds 10000, and a
\* segment reaches the 'complete' table exactly when its first and last
\* change point report the same leaflet.
C9_Segmentation ==
    /\ \A r \in FlipResids : FlipProcessed(r) =>
          LET segs == SegsOf(r)
          IN  /\ Flatten(segs) = ChangePoints(r)
              /\ \A k \in 1..Len(segs) : \A i \in 2..Len(segs[k]) :
                     segs[k][i].time - segs[k][i - 1].time <= 10000
              /\ \A k \in 2..Len(segs) :
                     segs[k][1].time - segs[k - 1][Len(segs[k - 1])].time > 10000
    /\ f_pc = "loop" => frames2 = ExpectedPairsUpTo(f_res - 1)
    /\ f_pc = "done" =>
          LET pairs == ExpectedPairsUpTo(NFlipRes)
          IN  final2 = [ i \in 1..Len(pairs) |->
                           [resid |-> pairs[i][1].resid, t_start |-> pairs[i][1].time,
                            t_end |-> pairs[i][2].time, leaflet |-> pairs[i][2].leaflet] ]

EventTimes(r) ==
    LET cp == ChangePoints(r) IN [ i \in 1..Len(cp) |-> cp[i].time ]

\* Changes at t = 100, 200 and 15000: the first two form one segment that is
\* not recorded, the change at 15000 starts a new segment.
C9_Witness ==
    /\ f_pc = "done"
    /\ EventTimes(1) = <<100, 200, 15000>>
    /\ Len(SegsOf(1)) = 2
    /\ Len(SegsOf(1)[1]) = 2
    /\ SegsOf(1)[2][1].time = 15000
    /\ \A i \in 1..Len(final2) : final2[i].resid = 1 => final2[i].t_start # 100

IdxOfTime(r, t) == CHOOSE i \in 1..NSamples : f_dat[r][i].time = t

\* The change points of residue r whose time lies in [t0, t1].
ChangePointsIn(r, t0, t1) ==
    SelectSeq(ChangePoints(r), LAMBDA e : e.time >= t0 /\ e.time <= t1)

LeafletBefore(r, t) == f_dat[r][IdxOfTime(r, t) - 1].leaflet

LeafletAt(r, t) == f_dat[r][IdxOfTime(r, t)].leaflet

\* C10 as stated: every row of the 'complete' table is a round trip: the
\* leaflet just before the segment's first change point equals the leaflet
\* at its last change point, so the segment holds at least two change points.
C10_RoundTripAsStated ==
    f_pc = "done" =>
        \A i \in 1..Len(final2) :
            LET row == final2[i]
            IN  /\ LeafletBefore(row.resid, row.t_start) = LeafletAt(row.resid, row.t_end)
                /\ Len(ChangePointsIn(row.resid, row.t_start, row.t_end)) >= 2

\* C10 amended: every row of the 'complete' table describes a net change of
\* leaflet: the leaflet just before the segment's first change point differs
\* from the leaflet at its last change point (the row's leaflet), and the
\* segment holds an odd number of change points, possibly one.
C10_NetChange ==
    f_pc = "done" =>
        \A i \in 1..Len(final2) :
            LET row == final2[i]
            IN  /\ LeafletBefore(row.resid, row.t_start) # LeafletAt(row.resid, row.t_end)
                /\ row.leaflet = LeafletAt(row.resid, row.t_end)
                /\ Len(ChangePointsIn(row.resid, row.t_start, row.t_end)) % 2 = 1

C10_Witness ==
    /\ f_pc = "done"
    /\ \E i \in 1..Len(final2) :
          /\ final2[i].t_start = final2[i].t_end
          /\ Len(ChangePointsIn(final2[i].resid, final2[i].t_start, final2[i].t_end)) = 1
    /\ \E i \in 1..Len(final2) :
          Len(ChangePointsIn(final2[i].resid, final2[i].t_start, final2[i].t_end)) = 3

---------------------------------------------------------------------------
(* Claims about neighbors.py.                                              *)

\* C6: parsing the table written with determine_neighbors' row format gives
\* back, for every residue and sampled time, exactly the set of neighbor ids
\* written, with an explicit empty list for a time without neighbors.
C6_RoundTrip ==
    nb_pc = "parsed" =>
        /\ DOMAIN neibdict = { nb_written[i].resid : i \in 1..Len(nb_written) }
        /\ \A r \in DOMAIN neibdict :
               DOMAIN neibdict[r] =
                   { ParseFloat(nb_written[i].time) :
                         i \in { j \in 1..Len(nb_written) : nb_written[j].resid = r } }
        /\ \A i \in 1..Len(nb_written) :
               LET w    == nb_written[i]
                   back == neibdict[w.resid][ParseFloat(w.time)]
               IN  /\ RangeOf(back) = RangeOf(w.neibresid)
                   /\ (w.neibresid = << >> => back = << >>)

\* Residues 1 and 2 at times 0.0 and 10.0, one time without neighbors, one
\* with neighbors 2 and 3, residue 2 reported once per atom.
C6_Witness ==
    /\ nb_pc = "parsed"
    /\ DOMAIN neibdict = {1, 2}
    /\ DOMAIN neibdict[1] = {0, 10000}
    /\ neibdict[1][0] = << >>
    /\ RangeOf(neibdict[1][10000]) = {2, 3}
    /\ \E i \in 1..Len(nb_written) : nb_written[i].neibresid = <<2, 2, 3>>

---------------------------------------------------------------------------
(* Claims about energy.py.                                                 *)

\* The distinct neighbors of the residue over all times, their number N and
\* the denominator D of the mode.
FragNeighbors == UNION { RangeOf(fg_neiblist[t]) : t \in DOMAIN fg_neiblist }

FragN == Cardinality(FragNeighbors)

FragD == denominator(fg_part)

\* ceil(n / d) for n >= 0 and d > 0.
Ceil(n, d) == CHOOSE k \in 0..n : k * d >= n /\ (k - 1) * d < n

\* The positions (0-based) of the neighbor list that fall in [i*D, (i+1)*D).
FragPositions(i) == { p \in 0..(FragN - 1) : i * FragD <= p /\ p < (i + 1) * FragD }

\* C1: run_calculation, write_energyfile and check_exist_xvgs all count
\* ceil(N/D) fragments; fragment i holds the positions [i*D, (i+1)*D) of the
\* deduplicated neighbor list; the fragments are pairwise disjoint, together
\* hold every neighbor exactly once, and all but the last hold D neighbors.
C1_Fragments ==
    /\ fg_pc \in {"fragments", "write", "check", "done"} =>
          /\ fg_nrun = Ceil(FragN, FragD)
          /\ Len(fg_all) = FragN
          /\ RangeOf(fg_all) = FragNeighbors
    /\ fg_pc \in {"check", "done"} => fg_nwrite = Ceil(FragN, FragD)
    /\ fg_pc = "done" => fg_ncheck = Ceil(FragN, FragD)
    /\ \A i \in 1..Len(fg_blocks) :
          fg_blocks[i] = [ k \in 1..Cardinality(FragPositions(i - 1)) |->
                             fg_all[(i - 1) * FragD + k] ]
    /\ fg_pc \in {"write", "check", "done"} =>
          /\ Len(fg_blocks) = Ceil(FragN, FragD)
          /\ \A i \in 1..Len(fg_blocks) : \A j \in (i + 1)..Len(fg_blocks) :
                RangeOf(fg_blocks[i]) \cap RangeOf(fg_blocks[j]) = {}
          /\ \A x \in FragNeighbors :
                Cardinality({ ik \in { <<i, k>> : i \in 1..Len(fg_blocks), k \in 1..FragD } :
                                 ik[2] <= Len(fg_blocks[ik[1]])
                                 /\ fg_blocks[ik[1]][ik[2]] = x }) = 1
          /\ \A i \in 1..(Len(fg_blocks) - 1) : Len(fg_blocks[i]) = FragD

\* N = 85 and D = 40: three fragments of sizes 40, 40 and 5, counted alike
\* by the three functions.
C1_Witness ==
    /\ fg_pc = "done"
    /\ FragN = 85
    /\ FragD = 40
    /\ fg_nrun = 3 /\ fg_nwrite = 3 /\ fg_ncheck = 3
    /\ [ i \in 1..Len(fg_blocks) |-> Len(fg_blocks[i]) ] = <<40, 40, 5>>

\* C2 as stated: a residue without neighbors (residue 3) still gets fragment
\* 0: after run_calculation has returned, one pass of the steps was made for
\* it and its fragment-0 run-control file exists.
C2_EmptyResidueGetsFragment ==
    r_pc = "returned" =>
        /\ \E i \in 1..Len(r_calls) : r_calls[i].res = 3 /\ r_calls[i].frag = 0
        /\ IsFile(r_files, mdpout(3, 0, r_part))

IsRerunOrExtraction(prog) == prog \in {"mdrun", "energy"}

\* C5: in a second call of run_calculation with overwrite disabled, mdrun is
\* not invoked for a fragment whose trace file existed when the call began,
\* gmx energy is not invoked for one whose table existed, and every trace
\* and table written by the first call keeps its content.
C5_IdempotentSkip ==
    (r_pass = 2 /\ ~r_overwrite) =>
        /\ \A i \in 1..Len(r_calls) :
              LET c == r_calls[i]
              IN  c.pass = 2 =>
                    /\ c.prog = "mdrun" =>
                          ~IsFile(r_first, energyf_output(c.res, c.frag, r_part))
                    /\ c.prog = "energy" =>
                          ~IsFile(r_first, xvg_out(c.res, c.frag, r_part))
        /\ \A p \in DOMAIN r_first :
              IsRerunOrExtraction(r_first[p].by) =>
                  p \in DOMAIN r_files /\ r_files[p] = r_first[p]

\* The second call has returned in carbons mode with overwrite disabled;
\* the first call had left the trace and the table of all three fragments,
\* and the second made no call of mdrun or gmx energy.
C5_Witness ==
    /\ r_pc = "returned"
    /\ r_pass = 2
    /\ ~r_overwrite
    /\ r_part = "carbons"
    /\ Cardinality({ p \in DOMAIN r_first : r_first[p].by = "mdrun" }) = 3
    /\ Cardinality({ p \in DOMAIN r_first : r_first[p].by = "energy" }) = 3
    /\ \A i \in 1..Len(r_calls) :
          r_calls[i].pass = 2 => ~IsRerunOrExtraction(r_calls[i].prog)
    /\ \E i \in 1..Len(r_calls) : r_calls[i].pass = 2

\* The residue id a group name or part label ends with, and the two labels
\* of a requested entry <type>:<host label>-<neighbor label>.
LabelId(label) == StrToInt(Last(SplitOn(label, << "_" >>)))

TermLabels(term) == SplitOn(SplitOn(term, << ":" >>)[2], << "-" >>)

WholeLabel(id) == <<"r", "e", "s", "i", "d", "_">> \o IntToStr(id)

\* The residues of the fragment run_calculation worked on last: the host
\* and the neighbors of the slice.
LastFragmentResidues ==
    LET res == ResidueAt(RunResids, r_res)
    IN  {res} \cup RangeOf(PySlice(all_neibs_of(run_neiblist[res]),
                                    groupblocks(r_frag - 1, denominator(r_part))[1],
                                    groupblocks(r_frag - 1, denominator(r_part))[2]))

\* C7: for every sterol or protein residue of a fragment, host or neighbor,
\* in every part mode, gather_energygroups emits exactly one group,
\* resid_<id>, and every label get_relev_energies uses for it is resid_<id>.
C7_SterolsWhole ==
    (r_pc = "loop" /\ r_frag > 0) =>
        LET groups == SplitOn(r_energygroups, << " " >>)
            terms  == RequestedTerms(r_relev)
        IN  \A id \in LastFragmentResidues :
              run_resid_to_lipid[id] \in STEROLS \cup PROTEINS =>
                /\ Cardinality({ k \in 1..Len(groups) : LabelId(groups[k]) = id }) = 1
                /\ \A k \in 1..Len(groups) :
                      LabelId(groups[k]) = id => groups[k] = WholeLabel(id)
                /\ \E t \in 1..Len(terms) :
                      \E j \in 1..2 : TermLabels(terms[t])[j] = WholeLabel(id)
                /\ \A t \in 1..Len(terms) :
                      /\ Len(TermLabels(terms[t])) = 2
                      /\ \A j \in 1..2 :
                            LabelId(TermLabels(terms[t])[j]) = id =>
                                TermLabels(terms[t])[j] = WholeLabel(id)

\* Mode head-tailhalfs, host 2 (a sterol) with the neighbors 1 (a lipid) and
\* 6 (a sterol): one group for each sterol, three for the lipid.
C7_Witness ==
    /\ r_pc = "loop"
    /\ r_part = "head-tailhalfs"
    /\ r_res = 1
    /\ r_frag = 1
    /\ r_energygroups = <<"r", "e", "s", "i", "d", "_", "2", " ", "r", "e", "s", "i", "d", "_", "h", "_", "1", " ", "r", "e", "s", "i", "d", "_", "t", "1", "2", "_", "1", " ", "r", "e", "s", "i", "d", "_", "t", "2", "2", "_", "1", " ", "r", "e", "s", "i", "d", "_", "6">>
    /\ Len(RequestedTerms(r_relev)) = 8

\* C4 as stated: a residue whose tables have no entry for one of its
\* neighbors is never finished, and write_energyfile fails at it with the
\* 'Not all neighbours found' error.
C4_OmissionRaisesNotAllFound ==
    \A i \in 1..Len(AggMolrange) :
        ag_omit.host = AggMolrange[i] =>
            /\ ag_idx <= i
            /\ (ag_pc = "raised" /\ ag_idx = i) =>
                  ag_error = "ValueError: Not all neighbours found in xvgfile"

AggAlignedTimes == { AggTimes[i] : i \in { j \in 1..Len(AggTimes) : AggTimes[j] % agg_dt = 0 } }

\* C8 as stated: for the system dppc_dupc_chol25 no row pairs 372 with 242,
\* write_energyfile does not fail when no table entry is missing, and when
\* it is done every other pair of a residue and its neighbor has its rows.
C8_SpecialCaseCompletes ==
    ag_system = "dppc_dupc_chol25" =>
        /\ \A k \in 1..Len(ag_rows) :
              /\ ~(ag_rows[k].host = 372 /\ ag_rows[k].neib = 242)
              /\ ~(ag_rows[k].host = 242 /\ ag_rows[k].neib = 372)
        /\ ag_omit = NoOmission => ag_pc # "raised"
        /\ (ag_omit = NoOmission /\ ag_pc = "done") =>
              \A h \in RangeOf(AggMolrange) :
                \A n \in RangeOf(all_neibs_of(agg_neiblist[h])) :
                    {h, n} # {242, 372} =>
                        \A t \in AggAlignedTimes :
                            \E k \in 1..Len(ag_rows) :
                                /\ ag_rows[k].host = h
                                /\ ag_rows[k].neib = n
                                /\ ag_rows[k].time = t

\* C11: calc_density called with overwrite disabled (or left out, which is
\* the same) while the output file exists returns the output path, invokes
\* neither gmx select nor gmx density and writes no file; called with
\* overwrite enabled it invokes gmx select and then gmx density, whether or
\* not the output exists, and returns the output path.
C11_DensitySkip ==
    d_ncall > 0 =>
        LET out == dens_datapath \o <<"d", "e", "n", "s", "i", "t", "i", "e", "s", "/">> \o d_args.outname
        IN  /\ d_ret = out
            /\ (d_args.overwrite \in {"default", "False"} /\ NormPath(out) \in DOMAIN d_before)
                  => /\ d_calls = << >>
                     /\ d_files = d_before
            /\ d_args.overwrite = "True"
                  => /\ Len(d_calls) = 2
                     /\ d_calls[1][2] = <<"s", "e", "l", "e", "c", "t">>
                     /\ d_calls[2][2] = <<"d", "e", "n", "s", "i", "t", "y">>

\* The second call, with overwrite left out, finds the profile the first
\* call made and returns without a call of the engine.
C11_Witness ==
    /\ d_ncall = 2
    /\ d_args.overwrite = "default"
    /\ NormPath(dens_datapath \o <<"d", "e", "n", "s", "i", "t", "i", "e", "s", "/">> \o d_args.outname) \in DOMAIN d_before
    /\ d_before[NormPath(dens_datapath \o <<"d", "e", "n", "s", "i", "t", "i", "e", "s", "/">> \o d_args.outname)].n = 1
    /\ d_calls = << >>

\* C12: a constructor call that succeeds has set the configuration of its
\* part mode: complete -> denominator 40, parts [resid_]; head-tail -> 20
\* and two parts; head-tailhalfs -> 10 and three parts; carbons -> 4 and
\* the seven parts resid_C0_ .. resid_C6_; each mode has its own name for
\* the output file.  A call with any other mode name raises before any
\* file is opened.
C12_PartConfiguration ==
    /\ e_pc = "built" =>
          /\ e_args.part = "complete" =>
                /\ e_self.denominator = 40
                /\ e_self.molparts = << <<"r", "e", "s", "i", "d", "_">> >>
                /\ e_self.all_energies \in
                      { <<"a", "l", "l", "_", "e", "n", "e", "r", "g", "i", "e", "s", ".", "d", "a", "t">>, <<"a", "l", "l", "_", "e", "n", "e", "r", "g", "i", "e", "s", "_", "n", "e", "i", "g", "h", "b", "o", "r", "_", "a", "l", "t", ".", "d", "a", "t">> }
          /\ e_args.part = "head-tail" =>
                /\ e_self.denominator = 20
                /\ e_self.molparts = << <<"r", "e", "s", "i", "d", "_", "h", "_">>, <<"r", "e", "s", "i", "d", "_", "t", "_">> >>
                /\ e_self.all_energies = <<"a", "l", "l", "_", "e", "n", "e", "r", "g", "i", "e", "s", "_", "h", "e", "a", "d", "t", "a", "i", "l", ".", "d", "a", "t">>
          /\ e_args.part = "head-tailhalfs" =>
                /\ e_self.denominator = 10
                /\ e_self.molparts = << <<"r", "e", "s", "i", "d", "_", "h", "_">>, <<"r", "e", "s", "i", "d", "_", "t", "1", "2", "_">>, <<"r", "e", "s", "i", "d", "_", "t", "2", "2", "_">> >>
                /\ e_self.all_energies = <<"a", "l", "l", "_", "e", "n", "e", "r", "g", "i", "e", "s", "_", "h", "e", "a", "d", "t", "a", "i", "l", "h", "a", "l", "f", "s", ".", "d", "a", "t">>
          /\ e_args.part = "carbons" =>
                /\ e_self.denominator = 4
                /\ e_self.molparts =
                      << <<"r", "e", "s", "i", "d", "_", "C", "0", "_">>, <<"r", "e", "s", "i", "d", "_", "C", "1", "_">>, <<"r", "e", "s", "i", "d", "_", "C", "2", "_">>, <<"r", "e", "s", "i", "d", "_", "C", "3", "_">>,
                         <<"r", "e", "s", "i", "d", "_", "C", "4", "_">>, <<"r", "e", "s", "i", "d", "_", "C", "5", "_">>, <<"r", "e", "s", "i", "d", "_", "C", "6", "_">> >>
                /\ e_self.all_energies = <<"a", "l", "l", "_", "e", "n", "e", "r", "g", "i", "e", "s", "_", "c", "a", "r", "b", "o", "n", "s", ".", "d", "a", "t">>
    /\ (e_pc # "new" /\ e_args.part \notin {"complete", "head-tail", "head-tailhalfs", "carbons"})
          => /\ e_pc = "raised"
             /\ e_opened = << >>
    /\ \A p, q \in {"complete", "head-tail", "head-tailhalfs", "carbons"} :
          p # q => all_energies(p, <<"n", "e", "i", "g", "h", "b", "o", "r", "_", "i", "n", "f", "o">>) # all_energies(q, <<"n", "e", "i", "g", "h", "b", "o", "r", "_", "i", "n", "f", "o">>)

\* An instance was built in the carbons mode.
C12_Witness ==
    /\ e_pc = "built"
    /\ e_args.part = "carbons"
    /\ Len(e_self.molparts) = 7

\* C13: an instance built with the neighbor-table file name F has read the
\* file named F and nothing else, and its neighbor relation is the content
\* of that file.
C13_ReadsNamedTable ==
    e_pc = "built" =>
        LET F == IF e_args.neighborfilename.given THEN e_args.neighborfilename.value
                 ELSE <<"n", "e", "i", "g", "h", "b", "o", "r", "_", "i", "n", "f", "o">>
        IN  /\ e_opened = << F >>
            /\ F \in DOMAIN e_tables
            /\ e_self.neiblist = get_neighbor_dict(e_tables[F])

\* C14: a call of determine_neighbors with a reference-strategy name other
\* than P, bothtails, glycerol and tails_com does not run to its end,
\* whatever the registry holds: it raises, and no neighbor search has been
\* invoked on the engine by then.
C14_UnknownRefatomsFail ==
    (nb_refatoms \notin {"P", "bothtails", "glycerol", "tails_com"} /\ nb_pc # "loop")
        => /\ nb_pc = "raised"
           /\ nb_invoked = << >>

\* C15: every row of the neighbor table lists each neighbor residue id at
\* most once, and its count column is the number of ids listed.
C15_RowsDeduplicated ==
    \A i \in 2..Len(nb_outfile) :
        LET cols == SplitWS(nb_outfile[i])
            ids  == IF Len(cols) >= 4 THEN SplitOn(cols[4], << "," >>) ELSE << >>
        IN  /\ Cardinality(RangeOf(ids)) = Len(ids)
            /\ StrToInt(cols[3]) = Len(ids)

\* C16: in a call with a valid reference strategy, the step for a residue of
\* configured species whose data file exists, with overwrite disabled,
\* invokes no engine, leaves every data file as it is and appends to the
\* neighbor table the rows made from the existing lines of the file; with
\* overwrite enabled the step invokes the engine for the residue.
C16_ReuseDataFile ==
    [][ ( /\ nb_pc = "loop"
          /\ nb_residue <= Len(NbMolrange)
          /\ nb_refatoms \in {"P", "bothtails", "glycerol", "tails_com"}
          /\ nb_resid_to_lipid[NbMolrange[nb_residue]] \in nb_registry_molecules )
        => LET residue == NbMolrange[nb_residue]
           IN  /\ (~nb_overwrite /\ nb_datafiles[residue].exists)
                     => /\ nb_invoked' = nb_invoked
                        /\ nb_datafiles' = nb_datafiles
                        /\ nb_outfile' = nb_outfile
                               \o NbRowsOf(residue, nb_datafiles[residue].lines)
               /\ nb_overwrite => nb_invoked' = Append(nb_invoked, residue) ]_vars

\* With overwrite disabled the loop has passed residue 1, whose data file
\* was there: the engine was not invoked for it and its rows are in the
\* table.
C16_Witness ==
    /\ ~nb_overwrite
    /\ nb_refatoms = "P"
    /\ nb_residue > 1
    /\ nb_datafiles[1].exists
    /\ \A i \in 1..Len(nb_invoked) : nb_invoked[i] # 1
    /\ Len(nb_outfile) = 1 + Len(nb_datafiles[1].lines)

\* The place of a residue in the list given to run_calculation, and the
\* place of a step within a fragment.
ResidPos(res) == CHOOSE i \in 1..Len(RunResids) : RunResids[i] = res

StepRank(step) ==
    CASE step = "create_MDP" -> 1
      [] step = "grompp"     -> 2
      [] step = "mdrun"      -> 3
      [] step = "energy"     -> 4

\* Step a comes strictly before step b in the order (call of
\* run_calculation, place of the residue in the list, fragment index, place
\* of the step in the fragment).
StepBefore(a, b) ==
    \/ a.pass < b.pass
    \/ /\ a.pass = b.pass
       /\ \/ ResidPos(a.res) < ResidPos(b.res)
          \/ /\ a.res = b.res
             /\ \/ a.frag < b.frag
                \/ a.frag = b.frag /\ StepRank(a.step) < StepRank(b.step)

\* C17: the steps run_calculation takes follow the order of the list of
\* residues it is given, within a residue the ascending fragment index, and
\* within a fragment the order run-control file, preprocessing, rerun,
\* extraction; a fragment's first step is the run-control file, so that no
\* step of a fragment comes before the last step of the one before it.
C17_StepOrder ==
    /\ \A i \in 1..Len(r_steps) : \A j \in (i + 1)..Len(r_steps) :
          StepBefore([ step |-> r_steps[i].prog, res |-> r_steps[i].res,
                       frag |-> r_steps[i].frag, pass |-> r_steps[i].pass ],
                     [ step |-> r_steps[j].prog, res |-> r_steps[j].res,
                       frag |-> r_steps[j].frag, pass |-> r_steps[j].pass ])
    /\ \A i \in 1..Len(r_steps) :
          (i = 1 \/ r_steps[i - 1].res # r_steps[i].res
                 \/ r_steps[i - 1].frag # r_steps[i].frag
                 \/ r_steps[i - 1].pass # r_steps[i].pass)
              => r_steps[i].prog = "create_MDP"

\* The first call has returned in carbons mode: four steps for residue 2,
\* which comes first in the list, then four for each of the two fragments
\* of residue 1.
C17_Witness ==
    /\ r_pc = "returned"
    /\ r_pass = 1
    /\ r_part = "carbons"
    /\ Len(r_steps) = 12
    /\ r_steps[1] = [ prog |-> "create_MDP", res |-> 2, frag |-> 0, pass |-> 1 ]
    /\ r_steps[4] = [ prog |-> "energy", res |-> 2, frag |-> 0, pass |-> 1 ]
    /\ r_steps[5] = [ prog |-> "create_MDP", res |-> 1, frag |-> 0, pass |-> 1 ]
    /\ r_steps[12] = [ prog |-> "energy", res |-> 1, frag |-> 1, pass |-> 1 ]

\* C19: in a second call of run_calculation with overwrite disabled, for a
\* fragment whose trace and table both existed when the call began no step
\* is taken: the run-control file is not written, no engine sub-command is
\* invoked, and its four files are as they were.
C19_FragmentSkippedWhole ==
    (r_pass = 2 /\ ~r_overwrite) =>
        \A res \in RangeOf(RunResids) : \A groupfragment \in 0..1 :
            (/\ IsFile(r_first, energyf_output(res, groupfragment, r_part))
             /\ IsFile(r_first, xvg_out(res, groupfragment, r_part)))
                => /\ \A i \in 1..Len(r_steps) :
                          ~(/\ r_steps[i].pass = 2
                            /\ r_steps[i].res = res
                            /\ r_steps[i].frag = groupfragment)
                   /\ \A p \in { mdpout(res, groupfragment, r_part),
                                  tprout(res, groupfragment, r_part),
                                  energyf_output(res, groupfragment, r_part),
                                  xvg_out(res, groupfragment, r_part) } :
                          /\ IsFile(r_files, p)
                          /\ r_files[NormPath(p)] = r_first[NormPath(p)]

\* C18: for a system without the special case of line 374, when no table
\* entry is missing write_energyfile does not raise, in any part mode and
\* for any mix of sterol and other residues.
C18_CompleteTablesPassCrossCheck ==
    (ag_omit = NoOmission /\ ag_system # "dppc_dupc_chol25") =>
        /\ ag_pc # "raised"
        /\ ag_error = "none"

\* C20: the energy-group list of every fragment (the groups of the host and
\* then those of the neighbors of the slice) holds at most DENOMINATOR = 40
\* groups.
C20_GroupsWithinCapacity ==
    fg_frag > 0 => Len(SplitOn(fg_energygroups, << " " >>)) <= 40

\* C21: the self-interaction terms requested for a sterol or protein
\* residue are, in every part mode, terms <type>:resid_<id>-resid_<id>
\* only.
C21_SelfTermsWhole ==
    \A k \in 1..Len(si_calls) :
        LET res   == SelfMolrange[k]
            terms == RequestedTerms(si_calls[k].input)
        IN  si_species[res] \in STEROLS \cup PROTEINS =>
                \A t \in 1..Len(terms) :
                    TermLabels(terms[t]) = << WholeLabel(res), WholeLabel(res) >>

\* The label of a part in the Molparts column: 'w' for the whole residue.
C22_Labels(species, part) ==
    IF species \in STEROLS \cup PROTEINS THEN { << "w" >> }
    ELSE { IF DropLast(DropFirst(molparts(part)[p], 6)) = << >> THEN << "w" >>
           ELSE DropLast(DropFirst(molparts(part)[p], 6)) : p \in 1..Len(molparts(part)) }

\* The residues whose tables have been read to their end.
C22_Read ==
    { AggMolrange[i] : i \in { j \in 1..Len(AggMolrange) :
        \/ j < ag_idx
        \/ /\ j = ag_idx
           /\ ag_pc = "raised"
           /\ ag_error \in { "ValueError: Not all neighbours found in xvgfile",
                             "ValueError: list.remove(x): x not in list" } } }

\* C22: with every table entry in place, for a host and a neighbor of
\* which one is of a sterol or protein species, write_energyfile prints at
\* each aligned time exactly one row for each pair of their parts, the
\* sterol or protein with the label 'w', and no other row, in every part
\* mode.
C22_SterolRowsWhole ==
    (ag_system = "dppc_chol_inp" /\ ag_omit = NoOmission) =>
        \A h \in C22_Read :
            \A n \in RangeOf(all_neibs_of(agg_neiblist[h])) :
                (ag_species[h] \in STEROLS \cup PROTEINS
                    \/ ag_species[n] \in STEROLS \cup PROTEINS) =>
                    \A t \in AggAlignedTimes :
                        LET rows == { k \in 1..Len(ag_rows) :
                                        /\ ag_rows[k].host = h
                                        /\ ag_rows[k].neib = n
                                        /\ ag_rows[k].time = t }
                            want == { hp \o << "_" >> \o np :
                                        hp \in C22_Labels(ag_species[h], ag_part),
                                        np \in C22_Labels(ag_species[n], ag_part) }
                        IN  /\ \A k \in rows : ag_rows[k].inter \in want
                            /\ \A w \in want :
                                  Cardinality({ k \in rows : ag_rows[k].inter = w }) = 1

\* The same for the species CHL1 alone.
C22_Chl1RowsWhole ==
    (\A r \in RangeOf(AggMolrange) : ag_species[r] # "ERG") => C22_SterolRowsWhole

\* The atom names of the buckets.
C23_Bucketed == UNION { RangeOf(SplitWS(ix_strings[b])) : b \in 1..Len(ix_strings) }

\* C23: for a lipid with two tail chains of any lengths
\* get_atoms_tailcarbons returns exactly 7 buckets,
\* create_selectionfile_indexcreation defines its groups without an error,
\* and every tail carbon of either chain is in a bucket.
C23_SevenBuckets ==
    ix_pc \in {"select", "returned", "raised"} /\ ix_type = "DPPC" =>
        /\ Len(ix_strings) = 7
        /\ ix_pc # "raised"
        /\ \A c \in 1..2 :
              RangeOf(tailcarbons_of(c - 1, ix_chains[c])) \subseteq C23_Bucketed

\* The same for chains of 13 or 14 carbons.
C23_StandardChains ==
    (ix_chains[1] \in 13..14 /\ ix_chains[2] \in 13..14) => C23_SevenBuckets

\* The rows of the configured residues of the file, each from its own head
\* and base atom.
C24_ExpectedRows ==
    LET resids == SortedSeq({ la_lines[k].resid : k \in { j \in 1..Len(la_lines) :
                                   la_lines[j].resname \in la_molecules } })
        headOf(r) == la_lines[CHOOSE k \in 1..Len(la_lines) :
                        la_lines[k].resid = r /\ la_lines[k].atomname = "P"].coords
        baseOf(r) == la_lines[CHOOSE k \in 1..Len(la_lines) :
                        la_lines[k].resid = r /\ la_lines[k].atomname = "C216"].coords
    IN  [ i \in 1..Len(resids) |->
            [ resid |-> resids[i],
              leaflet |-> molecule_leaflet_orientation(headOf(resids[i]), baseOf(resids[i])) ] ]

\* C24: whatever residues of species that are not configured the
\* coordinate file has, and wherever they are, create_leaflet_assignment_file
\* completes and prints exactly one row for each configured residue, with
\* the leaflet of that residue's head and base atom.
C24_UnconfiguredIgnored ==
    /\ la_pc # "raised"
    /\ la_pc = "done" => la_rows = C24_ExpectedRows

\* The same for the files that begin with a configured residue.
C24_ConfiguredFirst ==
    (la_pc # "idle" /\ la_lines[1].resname \in la_molecules) => C24_UnconfiguredIgnored

\* The numbers lo..hi of the calls of one engine program, in their order.
C25_CallsOf(calls, prog, lo, hi) ==
    SortedSeq({ k \in lo..hi : calls[k].prog = prog })

\* C25: every step of run_calculation leaves in gmx_grompp.log,
\* gmx_mdrun.log and gmx_energy.log all they held and appends the output of
\* each invocation the step made, once, in the order of the calls, whether
\* the invocation succeeded or not; no invocation is made a second time
\* within a call of run_calculation.
C25_LogsAppended ==
    [][ /\ \A prog \in {"grompp", "mdrun", "energy"} :
              r_logs'[prog] = r_logs[prog]
                  \o C25_CallsOf(r_calls', prog, Len(r_calls) + 1, Len(r_calls'))
        /\ SubSeq(r_calls', 1, Len(r_calls)) = r_calls
        /\ \A j, k \in 1..Len(r_calls') : r_calls'[j] = r_calls'[k] => j = k ]_vars

\* In the second call of run_calculation a rerun has failed (no trace was
\* written for its fragment) and its output is in gmx_mdrun.log after the
\* outputs of the first call.
C25_Witness ==
    /\ r_pass = 2
    /\ Len(r_logs.mdrun) >= 2
    /\ r_calls[Last(r_logs.mdrun)].pass = 2
    /\ r_calls[r_logs.mdrun[1]].pass = 1
    /\ ~IsFile(r_files, energyf_output(r_calls[Last(r_logs.mdrun)].res,
                                       r_calls[Last(r_logs.mdrun)].frag, r_part))

\* The tables of the residues of the registry's range, in the order of the
\* range and of the fragments.
C26_Tables ==
    ConcatAll([ i \in 1..Len(RunMolrange) |->
        [ k \in 1..run_number_of_groupfragments(
                      Len(all_neibs_of(run_neiblist[RunMolrange[i]])), denominator(r_part)) |->
            energypath \o <<"/", "x", "v", "g", "t", "a", "b", "l", "e", "s", "/", "e", "n", "e", "r", "g", "i", "e", "s", "_", "r", "e", "s", "i", "d", "u", "e">> \o IntToStr(RunMolrange[i])
                \o << "_" >> \o IntToStr(k - 1) \o self_part(r_part) \o <<".", "x", "v", "g">> ] ])

\* Every rerun and every extraction of the last call of run_calculation has
\* written its output.
C26_AllProduced ==
    \A k \in 1..Len(r_calls) :
        r_calls[k].pass = r_pass =>
            /\ r_calls[k].prog = "mdrun" =>
                  LET edr == NormPath(energyf_output(r_calls[k].res, r_calls[k].frag, r_part))
                  IN  edr \in DOMAIN r_files /\ r_files[edr].n = k
            /\ r_calls[k].prog = "energy" =>
                  LET xvg == NormPath(xvg_out(r_calls[k].res, r_calls[k].frag, r_part))
                  IN  xvg \in DOMAIN r_files /\ r_files[xvg].n = k

\* C26: check_exist_xvgs returns true exactly when the table of every
\* residue of the range and every fragment of it exists; the report holds,
\* after its first line, exactly the paths of the missing tables; and after
\* a run_calculation over all residues in which every engine step wrote
\* its output it returns true.
C26_CheckExistXvgs ==
    r_pc = "checked" =>
        LET missing == SelectSeq(C26_Tables, LAMBDA f : NormPath(f) \notin DOMAIN r_files)
        IN  /\ r_check.all_okay <=> missing = << >>
            /\ DropFirst(r_check.report, 1) = missing
            /\ C26_AllProduced => r_check.all_okay

\* After a run in which an extraction failed the check returns false and
\* reports the table.
C26_Witness ==
    /\ r_pc = "checked"
    /\ ~r_check.all_okay
    /\ Len(r_check.report) = 2
    /\ \E k \in 1..Len(r_calls) : r_calls[k].prog = "energy"

\* After a run in which every step wrote its output the check returns true.
C26_WitnessAllThere ==
    /\ r_pc = "checked"
    /\ C26_AllProduced
    /\ r_check.all_okay
    /\ r_check.report = << <<"#", "F", "i", "l", "e", "s", " ", "m", "i", "s", "s", "i", "n", "g">> >>

\* The groups the index file holds for the residues of the registry, each
\* with the residue whose selection file defines it.
C27_IndexGroups ==
    UNION { { << r, g >> :
                g \in DefinedGroups(create_selectionfile_indexcreation(
                                        r, run_resid_to_lipid[r], run_molecules, run_chains).text) } :
            r \in DOMAIN run_resid_to_lipid }

---------------------------------------------------------------------------
(* Specifications.                                                         *)

SpecOrientInit == OrientInit /\ FlipIdle /\ NeibIdle /\ FragIdle /\ RunIdle /\ AggIdle
                    /\ DensIdle /\ CtorIdle /\ SelfIdle /\ IndexIdle /\ AssignIdle

SpecOrientNext ==
    OrientCall /\ UNCHANGED <<flipVars, neibVars, fragVars, runVars, aggVars, densVars, ctorVars, selfVars, indexVars, assignVars>>

SpecOrient == SpecOrientInit /\ [][SpecOrientNext]_vars

SpecFlipInit == FlipInit /\ OrientIdle /\ NeibIdle /\ FragIdle /\ RunIdle /\ AggIdle
                    /\ DensIdle /\ CtorIdle /\ SelfIdle /\ IndexIdle /\ AssignIdle

SpecFlipNext ==
    \/ FlipResidue /\ UNCHANGED <<orientVars, neibVars, fragVars, runVars, aggVars, densVars, ctorVars, selfVars, indexVars, assignVars>>
    \/ FlipWrite /\ UNCHANGED <<orientVars, neibVars, fragVars, runVars, aggVars, densVars, ctorVars, selfVars, indexVars, assignVars>>

SpecFlip == SpecFlipInit /\ [][SpecFlipNext]_vars

SpecNeibInit == NeibInit /\ OrientIdle /\ FlipIdle /\ FragIdle /\ RunIdle /\ AggIdle
                    /\ DensIdle /\ CtorIdle /\ SelfIdle /\ IndexIdle /\ AssignIdle

SpecNeibNext ==
    \/ NbResidue /\ UNCHANGED <<orientVars, flipVars, fragVars, runVars, aggVars, densVars, ctorVars, selfVars, indexVars, assignVars>>
    \/ NbClose /\ UNCHANGED <<orientVars, flipVars, fragVars, runVars, aggVars, densVars, ctorVars, selfVars, indexVars, assignVars>>
    \/ NbParse /\ UNCHANGED <<orientVars, flipVars, fragVars, runVars, aggVars, densVars, ctorVars, selfVars, indexVars, assignVars>>

SpecNeib == SpecNeibInit /\ [][SpecNeibNext]_vars

SpecFragInit == FragInit /\ OrientIdle /\ FlipIdle /\ NeibIdle /\ RunIdle /\ AggIdle
                    /\ DensIdle /\ CtorIdle /\ SelfIdle /\ IndexIdle /\ AssignIdle

SpecFragNext ==
    \/ FragRunEntry /\ UNCHANGED <<orientVars, flipVars, neibVars, runVars, aggVars, densVars, ctorVars, selfVars, indexVars, assignVars>>
    \/ FragRunFragment /\ UNCHANGED <<orientVars, flipVars, neibVars, runVars, aggVars, densVars, ctorVars, selfVars, indexVars, assignVars>>
    \/ FragRunDone /\ UNCHANGED <<orientVars, flipVars, neibVars, runVars, aggVars, densVars, ctorVars, selfVars, indexVars, assignVars>>
    \/ FragWrite /\ UNCHANGED <<orientVars, flipVars, neibVars, runVars, aggVars, densVars, ctorVars, selfVars, indexVars, assignVars>>
    \/ FragCheck /\ UNCHANGED <<orientVars, flipVars, neibVars, runVars, aggVars, densVars, ctorVars, selfVars, indexVars, assignVars>>

SpecFrag == SpecFragInit /\ [][SpecFragNext]_vars

SpecRunInit == RunInit /\ OrientIdle /\ FlipIdle /\ NeibIdle /\ FragIdle /\ AggIdle
                    /\ DensIdle /\ CtorIdle /\ SelfIdle /\ IndexIdle /\ AssignIdle

SpecRunNext ==
    \/ RunFragment /\ UNCHANGED <<orientVars, flipVars, neibVars, fragVars, aggVars, densVars, ctorVars, selfVars, indexVars, assignVars>>
    \/ RunNextResidue /\ UNCHANGED <<orientVars, flipVars, neibVars, fragVars, aggVars, densVars, ctorVars, selfVars, indexVars, assignVars>>
    \/ RunReturn /\ UNCHANGED <<orientVars, flipVars, neibVars, fragVars, aggVars, densVars, ctorVars, selfVars, indexVars, assignVars>>
    \/ RunAgain /\ UNCHANGED <<orientVars, flipVars, neibVars, fragVars, aggVars, densVars, ctorVars, selfVars, indexVars, assignVars>>
    \/ RunCheck /\ UNCHANGED <<orientVars, flipVars, neibVars, fragVars, aggVars, densVars, ctorVars, selfVars, indexVars, assignVars>>

SpecRun == SpecRunInit /\ [][SpecRunNext]_vars

SpecAggInit == AggInit /\ OrientIdle /\ FlipIdle /\ NeibIdle /\ FragIdle /\ RunIdle
                    /\ DensIdle /\ CtorIdle /\ SelfIdle /\ IndexIdle /\ AssignIdle

SpecAggNext ==
    \/ AggResidue /\ UNCHANGED <<orientVars, flipVars, neibVars, fragVars, runVars, densVars, ctorVars, selfVars, indexVars, assignVars>>
    \/ AggDone /\ UNCHANGED <<orientVars, flipVars, neibVars, fragVars, runVars, densVars, ctorVars, selfVars, indexVars, assignVars>>

SpecAgg == SpecAggInit /\ [][SpecAggNext]_vars

SpecDensInit == DensInit /\ OrientIdle /\ FlipIdle /\ NeibIdle /\ FragIdle /\ RunIdle
                    /\ AggIdle /\ CtorIdle /\ SelfIdle /\ IndexIdle /\ AssignIdle

SpecDensNext ==
    DensCall /\ UNCHANGED <<orientVars, flipVars, neibVars, fragVars, runVars, aggVars, ctorVars, selfVars, indexVars, assignVars>>

SpecDens == SpecDensInit /\ [][SpecDensNext]_vars

SpecCtorInit == CtorInit /\ OrientIdle /\ FlipIdle /\ NeibIdle /\ FragIdle /\ RunIdle
                    /\ AggIdle /\ DensIdle /\ SelfIdle /\ IndexIdle /\ AssignIdle

SpecCtorNext ==
    EnergyInit /\ UNCHANGED <<orientVars, flipVars, neibVars, fragVars, runVars, aggVars, densVars, selfVars, indexVars, assignVars>>

SpecCtor == SpecCtorInit /\ [][SpecCtorNext]_vars

SpecSelfInit == SelfInit /\ OrientIdle /\ FlipIdle /\ NeibIdle /\ FragIdle /\ RunIdle
                    /\ AggIdle /\ DensIdle /\ CtorIdle /\ IndexIdle /\ AssignIdle

SpecSelfNext ==
    \/ SelfResidue /\ UNCHANGED <<orientVars, flipVars, neibVars, fragVars, runVars, aggVars, densVars, ctorVars, indexVars, assignVars>>
    \/ SelfDone /\ UNCHANGED <<orientVars, flipVars, neibVars, fragVars, runVars, aggVars, densVars, ctorVars, indexVars, assignVars>>

SpecSelf == SpecSelfInit /\ [][SpecSelfNext]_vars

SpecIndexInit == IndexInit /\ OrientIdle /\ FlipIdle /\ NeibIdle /\ FragIdle /\ RunIdle
                    /\ AggIdle /\ DensIdle /\ CtorIdle /\ SelfIdle /\ AssignIdle

SpecIndexNext ==
    \/ IndexOpen /\ UNCHANGED <<orientVars, flipVars, neibVars, fragVars, runVars, aggVars, densVars, ctorVars, selfVars, assignVars>>
    \/ IndexAtoms /\ UNCHANGED <<orientVars, flipVars, neibVars, fragVars, runVars, aggVars, densVars, ctorVars, selfVars, assignVars>>
    \/ IndexWrite /\ UNCHANGED <<orientVars, flipVars, neibVars, fragVars, runVars, aggVars, densVars, ctorVars, selfVars, assignVars>>

SpecIndex == SpecIndexInit /\ [][SpecIndexNext]_vars

SpecAssignInit == AssignInit /\ OrientIdle /\ FlipIdle /\ NeibIdle /\ FragIdle /\ RunIdle
                    /\ AggIdle /\ DensIdle /\ CtorIdle /\ SelfIdle /\ IndexIdle

SpecAssignNext ==
    \/ AssignLine /\ UNCHANGED <<orientVars, flipVars, neibVars, fragVars, runVars, aggVars, densVars, ctorVars, selfVars, indexVars>>
    \/ AssignFinish /\ UNCHANGED <<orientVars, flipVars, neibVars, fragVars, runVars, aggVars, densVars, ctorVars, selfVars, indexVars>>

SpecAssign == SpecAssignInit /\ [][SpecAssignNext]_vars

=============================================================================
